---- MODULE Spec2Model ----
(***************************************************************************)
(* Model of the extraction engine of pdf-structure-miner: the numeric      *)
(* normalizer, the header identifier and the row parser of                 *)
(* src/extractors/base.py, the table and text-fallback passes of           *)
(* src/extractors/pdf.py, the table pass of src/extractors/docx.py and the *)
(* item schema of src/schemas/licitacao.py.                                *)
(*                                                                         *)
(* A Python str is modelled as a sequence of characters, so that strip,    *)
(* lower, split, replace and substring tests are computed character by     *)
(* character as the code computes them.  A character is written as a       *)
(* one-character string; a character that a TLA+ string cannot hold (a      *)
(* control character other than \t \n \f \r, the grave accent, U+007F to    *)
(* U+00A0, and every character above U+00FF) is written as the string      *)
(* U+XXXX of its code point.  Python's None is the one-element sequence    *)
(* None, whose element is not a character.  The character tables are those *)
(* of Unicode 14.0.0 (CPython 3.11).                                       *)
(***************************************************************************)
EXTENDS Integers, Sequences, FiniteSets, TLC

VARIABLES
    fname,            \* file_path.name of the attachment being extracted
    pc,               \* where extract() is: start, tables, rows, text, scan, done
    state,            \* the ExtractionState of the table pass
    header_map,       \* the mapping of the table being read
    row,              \* the row last given to _parse_row (None before the first)
    items,            \* the list the table pass is filling (table_items in PDF)
    extracted_items,  \* extract()'s result list
    current_item,     \* the text fallback's buffer
    current_lote,     \* the text fallback's current lot
    text_items,       \* the list the text fallback is filling
    line,             \* the raw line the scan is at (EOF after the last)
    next_line,        \* the raw line after it (EOF when there is none)
    ntables, nrows, nlines,  \* how many tables, rows and lines were read
    fault,            \* the library raised while the attachment was read
    lot_seen,         \* history: lot text of the last row that had any
    head,             \* history: the first row of the table last taken (None when it has none)
    counted,          \* history: the numbers of the emitted items that came from item_counter
    form, doc,        \* form-layout text: its blocks, its lines not yet read
    num_in, num_out,  \* _clean_number: its argument and what it returned
    opc,              \* where the Orchestrator is: idle, files, extract, collected, end
    json_files,       \* the JSON files of the input directory, as globbed
    disk,             \* what the run finds on disk for each of them (SpecSeq; <<>> elsewhere)
    handled,          \* history: the documents taken, with their metadata and fate
    results,          \* process_directory's result list
    candidates,       \* the supported attachments of the document, as enumerated
    files_with_priority,  \* the (score, name) pairs after the sort
    attempted,        \* history: the attachments given to extract(), with what it returned
    all_items,        \* the items accumulated for the document
    processed_files,  \* the names of the attachments that yielded items
    final_items       \* what _deduplicate_items returned

\* The variables of the extraction of one attachment.
evars == <<fname, pc, state, header_map, row, items, extracted_items,
           current_item, current_lote, text_items, line, next_line,
           ntables, nrows, nlines, fault, lot_seen, head, counted, form, doc>>

\* The variables of the Orchestrator and of the numeric normalizer.
ovars == <<num_in, num_out, opc, json_files, disk, handled, results, candidates, files_with_priority,
           attempted, all_items, processed_files, final_items>>

vars == <<evars, ovars>>

\* ------------------------------------------------------------------ bounds
\* Tables read from one attachment, rows read from one attachment, and
\* lines of text read (not counting the empty last element of split("\n")).
MaxTables == 2
MaxRows == 3
MaxLines == 4
\* Rows and lines read from one attachment, together.
MaxReads == 4
\* Blocks of a form-layout text.
MaxBlocks == 2
\* Digits of the numeral Huge (the largest double has 309).
HugeLen == 310

\* ------------------------------------------------------- Python str model
None == <<"None">>
EOF == <<"EOF">>
Empty == <<>>

\* The code points of the decimal digits of value 0 other than "0": each begins a
\* run of ten decimal digits, of values 0 to 9.
OtherZeros ==
    <<1632, 1776, 1984, 2406, 2534, 2662, 2790, 2918, 3046, 3174, 3302, 3430, 3558, 3664,
      3792, 3872, 4160, 4240, 6112, 6160, 6470, 6608, 6784, 6800, 6992, 7088, 7232, 7248,
      42528, 43216, 43264, 43472, 43504, 43600, 44016, 65296, 66720, 68912, 69734, 69872,
      69942, 70096, 70384, 70736, 70864, 71248, 71360, 71472, 71904, 72016, 72784, 73040,
      73120, 92768, 92864, 93008, 120782, 120792, 120802, 120812, 120822, 123200, 123632,
      125264, 130032>>

\* The characters str.isdigit() accepts that are not decimal digits: those up
\* to U+00FF, and the ranges of code points of the others.
NonDecimalLatin ==
    {"²", "³", "¹"}

NonDecimalRanges ==
    <<<<4969, 4977>>, <<6618, 6618>>, <<8304, 8304>>, <<8308, 8313>>, <<8320, 8329>>,
      <<9312, 9320>>, <<9332, 9340>>, <<9352, 9360>>, <<9450, 9450>>, <<9461, 9469>>,
      <<9471, 9471>>, <<10102, 10110>>, <<10112, 10120>>, <<10122, 10130>>, <<68160, 68163>>,
      <<69216, 69224>>, <<69714, 69722>>, <<127232, 127242>>>>

\* The characters str.strip() removes.
Whitespace ==
    {"\t", "\n", "U+000B", "\f", "\r", "U+001C", "U+001D", "U+001E", "U+001F", " ", "U+0085",
     "U+00A0", "U+1680", "U+2000", "U+2001", "U+2002", "U+2003", "U+2004", "U+2005",
     "U+2006", "U+2007", "U+2008", "U+2009", "U+200A", "U+2028", "U+2029", "U+202F",
     "U+205F", "U+3000"}

\* The characters that str.lower() changes to one character whatever their
\* neighbours, where the character or its lower case is not above U+00FF,
\* and what it makes of them.
UpperLatin ==
    <<"A", "B", "C", "D", "E", "F", "G", "H", "I", "J", "K", "L", "M", "N", "O", "P", "Q",
      "R", "S", "T", "U", "V", "W", "X", "Y", "Z", "À", "Á", "Â", "Ã", "Ä", "Å", "Æ", "Ç",
      "È", "É", "Ê", "Ë", "Ì", "Í", "Î", "Ï", "Ð", "Ñ", "Ò", "Ó", "Ô", "Õ", "Ö", "Ø", "Ù",
      "Ú", "Û", "Ü", "Ý", "Þ", "U+0178", "U+1E9E", "U+212A", "U+212B">>

LowerLatin ==
    <<"a", "b", "c", "d", "e", "f", "g", "h", "i", "j", "k", "l", "m", "n", "o", "p", "q",
      "r", "s", "t", "u", "v", "w", "x", "y", "z", "à", "á", "â", "ã", "ä", "å", "æ", "ç",
      "è", "é", "ê", "ë", "ì", "í", "î", "ï", "ð", "ñ", "ò", "ó", "ô", "õ", "ö", "ø", "ù",
      "ú", "û", "ü", "ý", "þ", "ÿ", "ß", "k", "å">>

\* The other such characters: <<first, last, step, d>> stands for the code
\* points first, first + step, ... last, and the lower case of code point n
\* is code point n + d.
LowerRuns ==
    <<<<256, 302, 2, 1>>, <<306, 310, 2, 1>>, <<313, 327, 2, 1>>, <<330, 374, 2, 1>>,
      <<377, 381, 2, 1>>, <<385, 385, 1, 210>>, <<386, 388, 2, 1>>, <<390, 390, 1, 206>>,
      <<391, 391, 1, 1>>, <<393, 394, 1, 205>>, <<395, 395, 1, 1>>, <<398, 398, 1, 79>>,
      <<399, 399, 1, 202>>, <<400, 400, 1, 203>>, <<401, 401, 1, 1>>, <<403, 403, 1, 205>>,
      <<404, 404, 1, 207>>, <<406, 406, 1, 211>>, <<407, 407, 1, 209>>, <<408, 408, 1, 1>>,
      <<412, 412, 1, 211>>, <<413, 413, 1, 213>>, <<415, 415, 1, 214>>, <<416, 420, 2, 1>>,
      <<422, 422, 1, 218>>, <<423, 423, 1, 1>>, <<425, 425, 1, 218>>, <<428, 428, 1, 1>>,
      <<430, 430, 1, 218>>, <<431, 431, 1, 1>>, <<433, 434, 1, 217>>, <<435, 437, 2, 1>>,
      <<439, 439, 1, 219>>, <<440, 440, 1, 1>>, <<444, 444, 1, 1>>, <<452, 452, 1, 2>>,
      <<453, 453, 1, 1>>, <<455, 455, 1, 2>>, <<456, 456, 1, 1>>, <<458, 458, 1, 2>>,
      <<459, 475, 2, 1>>, <<478, 494, 2, 1>>, <<497, 497, 1, 2>>, <<498, 500, 2, 1>>,
      <<502, 502, 1, -97>>, <<503, 503, 1, -56>>, <<504, 542, 2, 1>>, <<544, 544, 1, -130>>,
      <<546, 562, 2, 1>>, <<570, 570, 1, 10795>>, <<571, 571, 1, 1>>, <<573, 573, 1, -163>>,
      <<574, 574, 1, 10792>>, <<577, 577, 1, 1>>, <<579, 579, 1, -195>>, <<580, 580, 1, 69>>,
      <<581, 581, 1, 71>>, <<582, 590, 2, 1>>, <<880, 882, 2, 1>>, <<886, 886, 1, 1>>,
      <<895, 895, 1, 116>>, <<902, 902, 1, 38>>, <<904, 906, 1, 37>>, <<908, 908, 1, 64>>,
      <<910, 911, 1, 63>>, <<913, 929, 1, 32>>, <<932, 939, 1, 32>>, <<975, 975, 1, 8>>,
      <<984, 1006, 2, 1>>, <<1012, 1012, 1, -60>>, <<1015, 1015, 1, 1>>,
      <<1017, 1017, 1, -7>>, <<1018, 1018, 1, 1>>, <<1021, 1023, 1, -130>>,
      <<1024, 1039, 1, 80>>, <<1040, 1071, 1, 32>>, <<1120, 1152, 2, 1>>,
      <<1162, 1214, 2, 1>>, <<1216, 1216, 1, 15>>, <<1217, 1229, 2, 1>>,
      <<1232, 1326, 2, 1>>, <<1329, 1366, 1, 48>>, <<4256, 4293, 1, 7264>>,
      <<4295, 4295, 1, 7264>>, <<4301, 4301, 1, 7264>>, <<5024, 5103, 1, 38864>>,
      <<5104, 5109, 1, 8>>, <<7312, 7354, 1, -3008>>, <<7357, 7359, 1, -3008>>,
      <<7680, 7828, 2, 1>>, <<7840, 7934, 2, 1>>, <<7944, 7951, 1, -8>>,
      <<7960, 7965, 1, -8>>, <<7976, 7983, 1, -8>>, <<7992, 7999, 1, -8>>,
      <<8008, 8013, 1, -8>>, <<8025, 8031, 2, -8>>, <<8040, 8047, 1, -8>>,
      <<8072, 8079, 1, -8>>, <<8088, 8095, 1, -8>>, <<8104, 8111, 1, -8>>,
      <<8120, 8121, 1, -8>>, <<8122, 8123, 1, -74>>, <<8124, 8124, 1, -9>>,
      <<8136, 8139, 1, -86>>, <<8140, 8140, 1, -9>>, <<8152, 8153, 1, -8>>,
      <<8154, 8155, 1, -100>>, <<8168, 8169, 1, -8>>, <<8170, 8171, 1, -112>>,
      <<8172, 8172, 1, -7>>, <<8184, 8185, 1, -128>>, <<8186, 8187, 1, -126>>,
      <<8188, 8188, 1, -9>>, <<8486, 8486, 1, -7517>>, <<8498, 8498, 1, 28>>,
      <<8544, 8559, 1, 16>>, <<8579, 8579, 1, 1>>, <<9398, 9423, 1, 26>>,
      <<11264, 11311, 1, 48>>, <<11360, 11360, 1, 1>>, <<11362, 11362, 1, -10743>>,
      <<11363, 11363, 1, -3814>>, <<11364, 11364, 1, -10727>>, <<11367, 11371, 2, 1>>,
      <<11373, 11373, 1, -10780>>, <<11374, 11374, 1, -10749>>, <<11375, 11375, 1, -10783>>,
      <<11376, 11376, 1, -10782>>, <<11378, 11378, 1, 1>>, <<11381, 11381, 1, 1>>,
      <<11390, 11391, 1, -10815>>, <<11392, 11490, 2, 1>>, <<11499, 11501, 2, 1>>,
      <<11506, 11506, 1, 1>>, <<42560, 42604, 2, 1>>, <<42624, 42650, 2, 1>>,
      <<42786, 42798, 2, 1>>, <<42802, 42862, 2, 1>>, <<42873, 42875, 2, 1>>,
      <<42877, 42877, 1, -35332>>, <<42878, 42886, 2, 1>>, <<42891, 42891, 1, 1>>,
      <<42893, 42893, 1, -42280>>, <<42896, 42898, 2, 1>>, <<42902, 42920, 2, 1>>,
      <<42922, 42922, 1, -42308>>, <<42923, 42923, 1, -42319>>, <<42924, 42924, 1, -42315>>,
      <<42925, 42925, 1, -42305>>, <<42926, 42926, 1, -42308>>, <<42928, 42928, 1, -42258>>,
      <<42929, 42929, 1, -42282>>, <<42930, 42930, 1, -42261>>, <<42931, 42931, 1, 928>>,
      <<42932, 42946, 2, 1>>, <<42948, 42948, 1, -48>>, <<42949, 42949, 1, -42307>>,
      <<42950, 42950, 1, -35384>>, <<42951, 42953, 2, 1>>, <<42960, 42960, 1, 1>>,
      <<42966, 42968, 2, 1>>, <<42997, 42997, 1, 1>>, <<65313, 65338, 1, 32>>,
      <<66560, 66599, 1, 40>>, <<66736, 66771, 1, 40>>, <<66928, 66938, 1, 39>>,
      <<66940, 66954, 1, 39>>, <<66956, 66962, 1, 39>>, <<66964, 66965, 1, 39>>,
      <<68736, 68786, 1, 64>>, <<71840, 71871, 1, 32>>, <<93760, 93791, 1, 32>>,
      <<125184, 125217, 1, 34>>>>

\* The cased characters that are not case-ignorable: those up to U+00FF, and
\* the ranges of code points of the others.
CasedLatin ==
    {"A", "B", "C", "D", "E", "F", "G", "H", "I", "J", "K", "L", "M", "N", "O", "P", "Q",
     "R", "S", "T", "U", "V", "W", "X", "Y", "Z", "a", "b", "c", "d", "e", "f", "g", "h",
     "i", "j", "k", "l", "m", "n", "o", "p", "q", "r", "s", "t", "u", "v", "w", "x", "y",
     "z", "ª", "µ", "º", "À", "Á", "Â", "Ã", "Ä", "Å", "Æ", "Ç", "È", "É", "Ê", "Ë", "Ì",
     "Í", "Î", "Ï", "Ð", "Ñ", "Ò", "Ó", "Ô", "Õ", "Ö", "Ø", "Ù", "Ú", "Û", "Ü", "Ý", "Þ",
     "ß", "à", "á", "â", "ã", "ä", "å", "æ", "ç", "è", "é", "ê", "ë", "ì", "í", "î", "ï",
     "ð", "ñ", "ò", "ó", "ô", "õ", "ö", "ø", "ù", "ú", "û", "ü", "ý", "þ", "ÿ"}

CasedRanges ==
    <<<<256, 442>>, <<444, 447>>, <<452, 659>>, <<661, 687>>, <<880, 883>>, <<886, 887>>,
      <<891, 893>>, <<895, 895>>, <<902, 902>>, <<904, 906>>, <<908, 908>>, <<910, 929>>,
      <<931, 1013>>, <<1015, 1153>>, <<1162, 1327>>, <<1329, 1366>>, <<1376, 1416>>,
      <<4256, 4293>>, <<4295, 4295>>, <<4301, 4301>>, <<4304, 4346>>, <<4349, 4351>>,
      <<5024, 5109>>, <<5112, 5117>>, <<7296, 7304>>, <<7312, 7354>>, <<7357, 7359>>,
      <<7424, 7467>>, <<7531, 7543>>, <<7545, 7578>>, <<7680, 7957>>, <<7960, 7965>>,
      <<7968, 8005>>, <<8008, 8013>>, <<8016, 8023>>, <<8025, 8025>>, <<8027, 8027>>,
      <<8029, 8029>>, <<8031, 8061>>, <<8064, 8116>>, <<8118, 8124>>, <<8126, 8126>>,
      <<8130, 8132>>, <<8134, 8140>>, <<8144, 8147>>, <<8150, 8155>>, <<8160, 8172>>,
      <<8178, 8180>>, <<8182, 8188>>, <<8450, 8450>>, <<8455, 8455>>, <<8458, 8467>>,
      <<8469, 8469>>, <<8473, 8477>>, <<8484, 8484>>, <<8486, 8486>>, <<8488, 8488>>,
      <<8490, 8493>>, <<8495, 8500>>, <<8505, 8505>>, <<8508, 8511>>, <<8517, 8521>>,
      <<8526, 8526>>, <<8544, 8575>>, <<8579, 8580>>, <<9398, 9449>>, <<11264, 11387>>,
      <<11390, 11492>>, <<11499, 11502>>, <<11506, 11507>>, <<11520, 11557>>,
      <<11559, 11559>>, <<11565, 11565>>, <<42560, 42605>>, <<42624, 42651>>,
      <<42786, 42863>>, <<42865, 42887>>, <<42891, 42894>>, <<42896, 42954>>,
      <<42960, 42961>>, <<42963, 42963>>, <<42965, 42969>>, <<42997, 42998>>,
      <<43002, 43002>>, <<43824, 43866>>, <<43872, 43880>>, <<43888, 43967>>,
      <<64256, 64262>>, <<64275, 64279>>, <<65313, 65338>>, <<65345, 65370>>,
      <<66560, 66639>>, <<66736, 66771>>, <<66776, 66811>>, <<66928, 66938>>,
      <<66940, 66954>>, <<66956, 66962>>, <<66964, 66965>>, <<66967, 66977>>,
      <<66979, 66993>>, <<66995, 67001>>, <<67003, 67004>>, <<68736, 68786>>,
      <<68800, 68850>>, <<71840, 71903>>, <<93760, 93823>>, <<119808, 119892>>,
      <<119894, 119964>>, <<119966, 119967>>, <<119970, 119970>>, <<119973, 119974>>,
      <<119977, 119980>>, <<119982, 119993>>, <<119995, 119995>>, <<119997, 120003>>,
      <<120005, 120069>>, <<120071, 120074>>, <<120077, 120084>>, <<120086, 120092>>,
      <<120094, 120121>>, <<120123, 120126>>, <<120128, 120132>>, <<120134, 120134>>,
      <<120138, 120144>>, <<120146, 120485>>, <<120488, 120512>>, <<120514, 120538>>,
      <<120540, 120570>>, <<120572, 120596>>, <<120598, 120628>>, <<120630, 120654>>,
      <<120656, 120686>>, <<120688, 120712>>, <<120714, 120744>>, <<120746, 120770>>,
      <<120772, 120779>>, <<122624, 122633>>, <<122635, 122654>>, <<125184, 125251>>,
      <<127280, 127305>>, <<127312, 127337>>, <<127344, 127369>>>>

\* The case-ignorable characters, likewise.
CaseIgnorableLatin ==
    {"'", ".", ":", "^", "U+0060", "¨", "­", "¯", "´", "·", "¸"}

CaseIgnorableRanges ==
    <<<<688, 879>>, <<884, 885>>, <<890, 890>>, <<900, 901>>, <<903, 903>>, <<1155, 1161>>,
      <<1369, 1369>>, <<1375, 1375>>, <<1425, 1469>>, <<1471, 1471>>, <<1473, 1474>>,
      <<1476, 1477>>, <<1479, 1479>>, <<1524, 1524>>, <<1536, 1541>>, <<1552, 1562>>,
      <<1564, 1564>>, <<1600, 1600>>, <<1611, 1631>>, <<1648, 1648>>, <<1750, 1757>>,
      <<1759, 1768>>, <<1770, 1773>>, <<1807, 1807>>, <<1809, 1809>>, <<1840, 1866>>,
      <<1958, 1968>>, <<2027, 2037>>, <<2042, 2042>>, <<2045, 2045>>, <<2070, 2093>>,
      <<2137, 2139>>, <<2184, 2184>>, <<2192, 2193>>, <<2200, 2207>>, <<2249, 2306>>,
      <<2362, 2362>>, <<2364, 2364>>, <<2369, 2376>>, <<2381, 2381>>, <<2385, 2391>>,
      <<2402, 2403>>, <<2417, 2417>>, <<2433, 2433>>, <<2492, 2492>>, <<2497, 2500>>,
      <<2509, 2509>>, <<2530, 2531>>, <<2558, 2558>>, <<2561, 2562>>, <<2620, 2620>>,
      <<2625, 2626>>, <<2631, 2632>>, <<2635, 2637>>, <<2641, 2641>>, <<2672, 2673>>,
      <<2677, 2677>>, <<2689, 2690>>, <<2748, 2748>>, <<2753, 2757>>, <<2759, 2760>>,
      <<2765, 2765>>, <<2786, 2787>>, <<2810, 2815>>, <<2817, 2817>>, <<2876, 2876>>,
      <<2879, 2879>>, <<2881, 2884>>, <<2893, 2893>>, <<2901, 2902>>, <<2914, 2915>>,
      <<2946, 2946>>, <<3008, 3008>>, <<3021, 3021>>, <<3072, 3072>>, <<3076, 3076>>,
      <<3132, 3132>>, <<3134, 3136>>, <<3142, 3144>>, <<3146, 3149>>, <<3157, 3158>>,
      <<3170, 3171>>, <<3201, 3201>>, <<3260, 3260>>, <<3263, 3263>>, <<3270, 3270>>,
      <<3276, 3277>>, <<3298, 3299>>, <<3328, 3329>>, <<3387, 3388>>, <<3393, 3396>>,
      <<3405, 3405>>, <<3426, 3427>>, <<3457, 3457>>, <<3530, 3530>>, <<3538, 3540>>,
      <<3542, 3542>>, <<3633, 3633>>, <<3636, 3642>>, <<3654, 3662>>, <<3761, 3761>>,
      <<3764, 3772>>, <<3782, 3782>>, <<3784, 3789>>, <<3864, 3865>>, <<3893, 3893>>,
      <<3895, 3895>>, <<3897, 3897>>, <<3953, 3966>>, <<3968, 3972>>, <<3974, 3975>>,
      <<3981, 3991>>, <<3993, 4028>>, <<4038, 4038>>, <<4141, 4144>>, <<4146, 4151>>,
      <<4153, 4154>>, <<4157, 4158>>, <<4184, 4185>>, <<4190, 4192>>, <<4209, 4212>>,
      <<4226, 4226>>, <<4229, 4230>>, <<4237, 4237>>, <<4253, 4253>>, <<4348, 4348>>,
      <<4957, 4959>>, <<5906, 5908>>, <<5938, 5939>>, <<5970, 5971>>, <<6002, 6003>>,
      <<6068, 6069>>, <<6071, 6077>>, <<6086, 6086>>, <<6089, 6099>>, <<6103, 6103>>,
      <<6109, 6109>>, <<6155, 6159>>, <<6211, 6211>>, <<6277, 6278>>, <<6313, 6313>>,
      <<6432, 6434>>, <<6439, 6440>>, <<6450, 6450>>, <<6457, 6459>>, <<6679, 6680>>,
      <<6683, 6683>>, <<6742, 6742>>, <<6744, 6750>>, <<6752, 6752>>, <<6754, 6754>>,
      <<6757, 6764>>, <<6771, 6780>>, <<6783, 6783>>, <<6823, 6823>>, <<6832, 6862>>,
      <<6912, 6915>>, <<6964, 6964>>, <<6966, 6970>>, <<6972, 6972>>, <<6978, 6978>>,
      <<7019, 7027>>, <<7040, 7041>>, <<7074, 7077>>, <<7080, 7081>>, <<7083, 7085>>,
      <<7142, 7142>>, <<7144, 7145>>, <<7149, 7149>>, <<7151, 7153>>, <<7212, 7219>>,
      <<7222, 7223>>, <<7288, 7293>>, <<7376, 7378>>, <<7380, 7392>>, <<7394, 7400>>,
      <<7405, 7405>>, <<7412, 7412>>, <<7416, 7417>>, <<7468, 7530>>, <<7544, 7544>>,
      <<7579, 7679>>, <<8125, 8125>>, <<8127, 8129>>, <<8141, 8143>>, <<8157, 8159>>,
      <<8173, 8175>>, <<8189, 8190>>, <<8203, 8207>>, <<8216, 8217>>, <<8228, 8228>>,
      <<8231, 8231>>, <<8234, 8238>>, <<8288, 8292>>, <<8294, 8303>>, <<8305, 8305>>,
      <<8319, 8319>>, <<8336, 8348>>, <<8400, 8432>>, <<11388, 11389>>, <<11503, 11505>>,
      <<11631, 11631>>, <<11647, 11647>>, <<11744, 11775>>, <<11823, 11823>>,
      <<12293, 12293>>, <<12330, 12333>>, <<12337, 12341>>, <<12347, 12347>>,
      <<12441, 12446>>, <<12540, 12542>>, <<40981, 40981>>, <<42232, 42237>>,
      <<42508, 42508>>, <<42607, 42610>>, <<42612, 42621>>, <<42623, 42623>>,
      <<42652, 42655>>, <<42736, 42737>>, <<42752, 42785>>, <<42864, 42864>>,
      <<42888, 42890>>, <<42994, 42996>>, <<43000, 43001>>, <<43010, 43010>>,
      <<43014, 43014>>, <<43019, 43019>>, <<43045, 43046>>, <<43052, 43052>>,
      <<43204, 43205>>, <<43232, 43249>>, <<43263, 43263>>, <<43302, 43309>>,
      <<43335, 43345>>, <<43392, 43394>>, <<43443, 43443>>, <<43446, 43449>>,
      <<43452, 43453>>, <<43471, 43471>>, <<43493, 43494>>, <<43561, 43566>>,
      <<43569, 43570>>, <<43573, 43574>>, <<43587, 43587>>, <<43596, 43596>>,
      <<43632, 43632>>, <<43644, 43644>>, <<43696, 43696>>, <<43698, 43700>>,
      <<43703, 43704>>, <<43710, 43711>>, <<43713, 43713>>, <<43741, 43741>>,
      <<43756, 43757>>, <<43763, 43764>>, <<43766, 43766>>, <<43867, 43871>>,
      <<43881, 43883>>, <<44005, 44005>>, <<44008, 44008>>, <<44013, 44013>>,
      <<64286, 64286>>, <<64434, 64450>>, <<65024, 65039>>, <<65043, 65043>>,
      <<65056, 65071>>, <<65106, 65106>>, <<65109, 65109>>, <<65279, 65279>>,
      <<65287, 65287>>, <<65294, 65294>>, <<65306, 65306>>, <<65342, 65342>>,
      <<65344, 65344>>, <<65392, 65392>>, <<65438, 65439>>, <<65507, 65507>>,
      <<65529, 65531>>, <<66045, 66045>>, <<66272, 66272>>, <<66422, 66426>>,
      <<67456, 67461>>, <<67463, 67504>>, <<67506, 67514>>, <<68097, 68099>>,
      <<68101, 68102>>, <<68108, 68111>>, <<68152, 68154>>, <<68159, 68159>>,
      <<68325, 68326>>, <<68900, 68903>>, <<69291, 69292>>, <<69446, 69456>>,
      <<69506, 69509>>, <<69633, 69633>>, <<69688, 69702>>, <<69744, 69744>>,
      <<69747, 69748>>, <<69759, 69761>>, <<69811, 69814>>, <<69817, 69818>>,
      <<69821, 69821>>, <<69826, 69826>>, <<69837, 69837>>, <<69888, 69890>>,
      <<69927, 69931>>, <<69933, 69940>>, <<70003, 70003>>, <<70016, 70017>>,
      <<70070, 70078>>, <<70089, 70092>>, <<70095, 70095>>, <<70191, 70193>>,
      <<70196, 70196>>, <<70198, 70199>>, <<70206, 70206>>, <<70367, 70367>>,
      <<70371, 70378>>, <<70400, 70401>>, <<70459, 70460>>, <<70464, 70464>>,
      <<70502, 70508>>, <<70512, 70516>>, <<70712, 70719>>, <<70722, 70724>>,
      <<70726, 70726>>, <<70750, 70750>>, <<70835, 70840>>, <<70842, 70842>>,
      <<70847, 70848>>, <<70850, 70851>>, <<71090, 71093>>, <<71100, 71101>>,
      <<71103, 71104>>, <<71132, 71133>>, <<71219, 71226>>, <<71229, 71229>>,
      <<71231, 71232>>, <<71339, 71339>>, <<71341, 71341>>, <<71344, 71349>>,
      <<71351, 71351>>, <<71453, 71455>>, <<71458, 71461>>, <<71463, 71467>>,
      <<71727, 71735>>, <<71737, 71738>>, <<71995, 71996>>, <<71998, 71998>>,
      <<72003, 72003>>, <<72148, 72151>>, <<72154, 72155>>, <<72160, 72160>>,
      <<72193, 72202>>, <<72243, 72248>>, <<72251, 72254>>, <<72263, 72263>>,
      <<72273, 72278>>, <<72281, 72283>>, <<72330, 72342>>, <<72344, 72345>>,
      <<72752, 72758>>, <<72760, 72765>>, <<72767, 72767>>, <<72850, 72871>>,
      <<72874, 72880>>, <<72882, 72883>>, <<72885, 72886>>, <<73009, 73014>>,
      <<73018, 73018>>, <<73020, 73021>>, <<73023, 73029>>, <<73031, 73031>>,
      <<73104, 73105>>, <<73109, 73109>>, <<73111, 73111>>, <<73459, 73460>>,
      <<78896, 78904>>, <<92912, 92916>>, <<92976, 92982>>, <<92992, 92995>>,
      <<94031, 94031>>, <<94095, 94111>>, <<94176, 94177>>, <<94179, 94180>>,
      <<110576, 110579>>, <<110581, 110587>>, <<110589, 110590>>, <<113821, 113822>>,
      <<113824, 113827>>, <<118528, 118573>>, <<118576, 118598>>, <<119143, 119145>>,
      <<119155, 119170>>, <<119173, 119179>>, <<119210, 119213>>, <<119362, 119364>>,
      <<121344, 121398>>, <<121403, 121452>>, <<121461, 121461>>, <<121476, 121476>>,
      <<121499, 121503>>, <<121505, 121519>>, <<122880, 122886>>, <<122888, 122904>>,
      <<122907, 122913>>, <<122915, 122916>>, <<122918, 122922>>, <<123184, 123197>>,
      <<123566, 123566>>, <<123628, 123631>>, <<125136, 125142>>, <<125252, 125259>>,
      <<127995, 127999>>, <<917505, 917505>>, <<917536, 917631>>, <<917760, 917999>>>>

HexDigit == <<"0", "1", "2", "3", "4", "5", "6", "7", "8", "9", "A", "B", "C", "D", "E", "F">>

\* The hexadecimal numeral of n, of at least w digits.
RECURSIVE Hex(_, _)
Hex(n, w) ==
    IF w = 0 /\ n = 0 THEN ""
    ELSE Hex(n \div 16, IF w = 0 THEN 0 ELSE w - 1) \o HexDigit[(n % 16) + 1]

\* The character of code point n, for n above 255.
CharOf(n) == "U+" \o Hex(n, 4)

\* The characters of the ranges rs of code points.
CharsOf(rs) == UNION {{CharOf(n) : n \in rs[k][1]..rs[k][2]} : k \in 1..Len(rs)}

AsciiDigits == {"0", "1", "2", "3", "4", "5", "6", "7", "8", "9"}

OtherDigits == {CharOf(OtherZeros[k] + v) : k \in 1..Len(OtherZeros), v \in 0..9}

\* The characters \d matches in a str pattern: the decimal digits.
Digits == AsciiDigits \cup OtherDigits

\* The characters str.isdigit() accepts.
IsDigitChars == Digits \cup NonDecimalLatin \cup CharsOf(NonDecimalRanges)

\* The value float() gives a decimal digit.
DigitVal(c) ==
    CASE c = "0" -> 0 [] c = "1" -> 1 [] c = "2" -> 2 [] c = "3" -> 3
      [] c = "4" -> 4 [] c = "5" -> 5 [] c = "6" -> 6 [] c = "7" -> 7
      [] c = "8" -> 8 [] c = "9" -> 9
      [] OTHER -> CHOOSE v \in 0..9 : \E k \in 1..Len(OtherZeros) : CharOf(OtherZeros[k] + v) = c

UpperLatinSet == {UpperLatin[i] : i \in 1..Len(UpperLatin)}

\* The code points of a run of LowerRuns.
RunPoints(r) == {r[1] + i * r[3] : i \in 0..((r[2] - r[1]) \div r[3])}

\* The pairs of a character of LowerRuns and its lower case.
LowerPairs ==
    UNION {{<<CharOf(n), CharOf(n + LowerRuns[k][4])>> : n \in RunPoints(LowerRuns[k])} :
           k \in 1..Len(LowerRuns)}

UpperOtherSet == {p[1] : p \in LowerPairs}

\* str.lower() on one character whose lower case is one character and does
\* not depend on its neighbours.
LowerChar(c) ==
    IF c \in UpperLatinSet
    THEN LowerLatin[CHOOSE i \in 1..Len(UpperLatin) : UpperLatin[i] = c]
    ELSE IF c \in UpperOtherSet
    THEN (CHOOSE p \in LowerPairs : p[1] = c)[2]
    ELSE c

Cased == CasedLatin \cup CharsOf(CasedRanges)

CaseIgnorable == CaseIgnorableLatin \cup CharsOf(CaseIgnorableRanges)

\* The capital sigma at position i of s is final: a cased character comes
\* before it and none after it, case-ignorable characters not counted.
FinalSigma(s, i) ==
    LET before == {j \in 1..(i - 1) : s[j] \notin CaseIgnorable}
        after  == {j \in (i + 1)..Len(s) : s[j] \notin CaseIgnorable}
    IN  /\ before # {}
        /\ s[CHOOSE j \in before : \A k \in before : k <= j] \in Cased
        /\ after # {} => s[CHOOSE j \in after : \A k \in after : j <= k] \notin Cased

\* The characters whose lower case is not given by LowerChar: the capital
\* sigma and the capital I with dot above.
SpecialUpper == {"U+03A3", "U+0130"}

RECURSIVE LowerFrom(_, _)
LowerFrom(s, i) ==
    IF i > Len(s) THEN <<>>
    ELSE (IF s[i] = "U+03A3"
          THEN (IF FinalSigma(s, i) THEN <<"U+03C2">> ELSE <<"U+03C3">>)
          ELSE IF s[i] = "U+0130" THEN <<"i", "U+0307">>
          ELSE <<LowerChar(s[i])>>) \o LowerFrom(s, i + 1)

\* str.lower()
Lower(s) ==
    IF \A i \in 1..Len(s) : s[i] \notin SpecialUpper
    THEN SubSeq([i \in 1..Len(s) |-> LowerChar(s[i])], 1, Len(s))
    ELSE LowerFrom(s, 1)

\* unidecode() is a library outside the repository's source.  The model
\* holds these of its tables, as sequences of characters and of what each
\* gives (the empty string for a character the library drops): U+0080 to
\* U+00FF; the Latin letters of U+0100 to U+024F and U+1E00 to U+1EFF that
\* are a letter with marks, the other letters of U+0100 to U+017F, the florin
\* sign and the digraphs of U+01C4 to U+01F3; the combining marks U+0300 to
\* U+036F; the Russian alphabet (U+0401, U+0410 to U+044F, U+0451); the
\* spaces, dashes, quotation marks and signs of U+2000 to U+2049; the
\* superscripts and subscripts; the euro, Kelvin and angstrom signs; the
\* minus sign and the signs for "at most" and "at least"; the ideographic
\* space; the Latin ligatures U+FB00 to U+FB06; the fullwidth forms U+FF01
\* to U+FF5E; the Latin letters and the digits of the mathematical
\* alphanumeric symbols (U+1D400 to U+1D6A3, U+1D7CE to U+1D7FF).
UnidecodeFrom ==
    <<"U+0080", "U+0081", "U+0082", "U+0083", "U+0084", "U+0085", "U+0086", "U+0087",
      "U+0088", "U+0089", "U+008A", "U+008B", "U+008C", "U+008D", "U+008E", "U+008F",
      "U+0090", "U+0091", "U+0092", "U+0093", "U+0094", "U+0095", "U+0096", "U+0097",
      "U+0098", "U+0099", "U+009A", "U+009B", "U+009C", "U+009D", "U+009E", "U+009F",
      "U+00A0", "¡", "¢", "£", "¤", "¥", "¦", "§", "¨", "©", "ª", "«", "¬", "­", "®", "¯",
      "°", "±", "²", "³", "´", "µ", "¶", "·", "¸", "¹", "º", "»", "¼", "½", "¾", "¿", "À",
      "Á", "Â", "Ã", "Ä", "Å", "Æ", "Ç", "È", "É", "Ê", "Ë", "Ì", "Í", "Î", "Ï", "Ð", "Ñ",
      "Ò", "Ó", "Ô", "Õ", "Ö", "×", "Ø", "Ù", "Ú", "Û", "Ü", "Ý", "Þ", "ß", "à", "á", "â",
      "ã", "ä", "å", "æ", "ç", "è", "é", "ê", "ë", "ì", "í", "î", "ï", "ð", "ñ", "ò", "ó",
      "ô", "õ", "ö", "÷", "ø", "ù", "ú", "û", "ü", "ý", "þ", "ÿ", "U+0100", "U+0101",
      "U+0102", "U+0103", "U+0104", "U+0105", "U+0106", "U+0107", "U+0108", "U+0109",
      "U+010A", "U+010B", "U+010C", "U+010D", "U+010E", "U+010F", "U+0110", "U+0111",
      "U+0112", "U+0113", "U+0114", "U+0115", "U+0116", "U+0117", "U+0118", "U+0119",
      "U+011A", "U+011B", "U+011C", "U+011D", "U+011E", "U+011F", "U+0120", "U+0121",
      "U+0122", "U+0123", "U+0124", "U+0125", "U+0126", "U+0127", "U+0128", "U+0129",
      "U+012A", "U+012B", "U+012C", "U+012D", "U+012E", "U+012F", "U+0130", "U+0131",
      "U+0132", "U+0133", "U+0134", "U+0135", "U+0136", "U+0137", "U+0138", "U+0139",
      "U+013A", "U+013B", "U+013C", "U+013D", "U+013E", "U+013F", "U+0140", "U+0141",
      "U+0142", "U+0143", "U+0144", "U+0145", "U+0146", "U+0147", "U+0148", "U+0149",
      "U+014A", "U+014B", "U+014C", "U+014D", "U+014E", "U+014F", "U+0150", "U+0151",
      "U+0152", "U+0153", "U+0154", "U+0155", "U+0156", "U+0157", "U+0158", "U+0159",
      "U+015A", "U+015B", "U+015C", "U+015D", "U+015E", "U+015F", "U+0160", "U+0161",
      "U+0162", "U+0163", "U+0164", "U+0165", "U+0166", "U+0167", "U+0168", "U+0169",
      "U+016A", "U+016B", "U+016C", "U+016D", "U+016E", "U+016F", "U+0170", "U+0171",
      "U+0172", "U+0173", "U+0174", "U+0175", "U+0176", "U+0177", "U+0178", "U+0179",
      "U+017A", "U+017B", "U+017C", "U+017D", "U+017E", "U+017F", "U+0192", "U+01A0",
      "U+01A1", "U+01AF", "U+01B0", "U+01C4", "U+01C5", "U+01C6", "U+01C7", "U+01C8",
      "U+01C9", "U+01CA", "U+01CB", "U+01CC", "U+01CD", "U+01CE", "U+01CF", "U+01D0",
      "U+01D1", "U+01D2", "U+01D3", "U+01D4", "U+01D5", "U+01D6", "U+01D7", "U+01D8",
      "U+01D9", "U+01DA", "U+01DB", "U+01DC", "U+01DE", "U+01DF", "U+01E0", "U+01E1",
      "U+01E2", "U+01E3", "U+01E6", "U+01E7", "U+01E8", "U+01E9", "U+01EA", "U+01EB",
      "U+01EC", "U+01ED", "U+01F0", "U+01F1", "U+01F2", "U+01F3", "U+01F4", "U+01F5",
      "U+01F8", "U+01F9", "U+01FA", "U+01FB", "U+01FC", "U+01FD", "U+01FE", "U+01FF",
      "U+0200", "U+0201", "U+0202", "U+0203", "U+0204", "U+0205", "U+0206", "U+0207",
      "U+0208", "U+0209", "U+020A", "U+020B", "U+020C", "U+020D", "U+020E", "U+020F",
      "U+0210", "U+0211", "U+0212", "U+0213", "U+0214", "U+0215", "U+0216", "U+0217",
      "U+0218", "U+0219", "U+021A", "U+021B", "U+021E", "U+021F", "U+0226", "U+0227",
      "U+0228", "U+0229", "U+022A", "U+022B", "U+022C", "U+022D", "U+022E", "U+022F",
      "U+0230", "U+0231", "U+0232", "U+0233", "U+0300", "U+0301", "U+0302", "U+0303",
      "U+0304", "U+0305", "U+0306", "U+0307", "U+0308", "U+0309", "U+030A", "U+030B",
      "U+030C", "U+030D", "U+030E", "U+030F", "U+0310", "U+0311", "U+0312", "U+0313",
      "U+0314", "U+0315", "U+0316", "U+0317", "U+0318", "U+0319", "U+031A", "U+031B",
      "U+031C", "U+031D", "U+031E", "U+031F", "U+0320", "U+0321", "U+0322", "U+0323",
      "U+0324", "U+0325", "U+0326", "U+0327", "U+0328", "U+0329", "U+032A", "U+032B",
      "U+032C", "U+032D", "U+032E", "U+032F", "U+0330", "U+0331", "U+0332", "U+0333",
      "U+0334", "U+0335", "U+0336", "U+0337", "U+0338", "U+0339", "U+033A", "U+033B",
      "U+033C", "U+033D", "U+033E", "U+033F", "U+0340", "U+0341", "U+0342", "U+0343",
      "U+0344", "U+0345", "U+0346", "U+0347", "U+0348", "U+0349", "U+034A", "U+034B",
      "U+034C", "U+034D", "U+034E", "U+034F", "U+0350", "U+0351", "U+0352", "U+0353",
      "U+0354", "U+0355", "U+0356", "U+0357", "U+0358", "U+0359", "U+035A", "U+035B",
      "U+035C", "U+035D", "U+035E", "U+035F", "U+0360", "U+0361", "U+0362", "U+0363",
      "U+0364", "U+0365", "U+0366", "U+0367", "U+0368", "U+0369", "U+036A", "U+036B",
      "U+036C", "U+036D", "U+036E", "U+036F", "U+0401", "U+0410", "U+0411", "U+0412",
      "U+0413", "U+0414", "U+0415", "U+0416", "U+0417", "U+0418", "U+0419", "U+041A",
      "U+041B", "U+041C", "U+041D", "U+041E", "U+041F", "U+0420", "U+0421", "U+0422",
      "U+0423", "U+0424", "U+0425", "U+0426", "U+0427", "U+0428", "U+0429", "U+042A",
      "U+042B", "U+042C", "U+042D", "U+042E", "U+042F", "U+0430", "U+0431", "U+0432",
      "U+0433", "U+0434", "U+0435", "U+0436", "U+0437", "U+0438", "U+0439", "U+043A",
      "U+043B", "U+043C", "U+043D", "U+043E", "U+043F", "U+0440", "U+0441", "U+0442",
      "U+0443", "U+0444", "U+0445", "U+0446", "U+0447", "U+0448", "U+0449", "U+044A",
      "U+044B", "U+044C", "U+044D", "U+044E", "U+044F", "U+0451", "U+1E00", "U+1E01",
      "U+1E02", "U+1E03", "U+1E04", "U+1E05", "U+1E06", "U+1E07", "U+1E08", "U+1E09",
      "U+1E0A", "U+1E0B", "U+1E0C", "U+1E0D", "U+1E0E", "U+1E0F", "U+1E10", "U+1E11",
      "U+1E12", "U+1E13", "U+1E14", "U+1E15", "U+1E16", "U+1E17", "U+1E18", "U+1E19",
      "U+1E1A", "U+1E1B", "U+1E1C", "U+1E1D", "U+1E1E", "U+1E1F", "U+1E20", "U+1E21",
      "U+1E22", "U+1E23", "U+1E24", "U+1E25", "U+1E26", "U+1E27", "U+1E28", "U+1E29",
      "U+1E2A", "U+1E2B", "U+1E2C", "U+1E2D", "U+1E2E", "U+1E2F", "U+1E30", "U+1E31",
      "U+1E32", "U+1E33", "U+1E34", "U+1E35", "U+1E36", "U+1E37", "U+1E38", "U+1E39",
      "U+1E3A", "U+1E3B", "U+1E3C", "U+1E3D", "U+1E3E", "U+1E3F", "U+1E40", "U+1E41",
      "U+1E42", "U+1E43", "U+1E44", "U+1E45", "U+1E46", "U+1E47", "U+1E48", "U+1E49",
      "U+1E4A", "U+1E4B", "U+1E4C", "U+1E4D", "U+1E4E", "U+1E4F", "U+1E50", "U+1E51",
      "U+1E52", "U+1E53", "U+1E54", "U+1E55", "U+1E56", "U+1E57", "U+1E58", "U+1E59",
      "U+1E5A", "U+1E5B", "U+1E5C", "U+1E5D", "U+1E5E", "U+1E5F", "U+1E60", "U+1E61",
      "U+1E62", "U+1E63", "U+1E64", "U+1E65", "U+1E66", "U+1E67", "U+1E68", "U+1E69",
      "U+1E6A", "U+1E6B", "U+1E6C", "U+1E6D", "U+1E6E", "U+1E6F", "U+1E70", "U+1E71",
      "U+1E72", "U+1E73", "U+1E74", "U+1E75", "U+1E76", "U+1E77", "U+1E78", "U+1E79",
      "U+1E7A", "U+1E7B", "U+1E7C", "U+1E7D", "U+1E7E", "U+1E7F", "U+1E80", "U+1E81",
      "U+1E82", "U+1E83", "U+1E84", "U+1E85", "U+1E86", "U+1E87", "U+1E88", "U+1E89",
      "U+1E8A", "U+1E8B", "U+1E8C", "U+1E8D", "U+1E8E", "U+1E8F", "U+1E90", "U+1E91",
      "U+1E92", "U+1E93", "U+1E94", "U+1E95", "U+1E96", "U+1E97", "U+1E98", "U+1E99",
      "U+1EA0", "U+1EA1", "U+1EA2", "U+1EA3", "U+1EA4", "U+1EA5", "U+1EA6", "U+1EA7",
      "U+1EA8", "U+1EA9", "U+1EAA", "U+1EAB", "U+1EAC", "U+1EAD", "U+1EAE", "U+1EAF",
      "U+1EB0", "U+1EB1", "U+1EB2", "U+1EB3", "U+1EB4", "U+1EB5", "U+1EB6", "U+1EB7",
      "U+1EB8", "U+1EB9", "U+1EBA", "U+1EBB", "U+1EBC", "U+1EBD", "U+1EBE", "U+1EBF",
      "U+1EC0", "U+1EC1", "U+1EC2", "U+1EC3", "U+1EC4", "U+1EC5", "U+1EC6", "U+1EC7",
      "U+1EC8", "U+1EC9", "U+1ECA", "U+1ECB", "U+1ECC", "U+1ECD", "U+1ECE", "U+1ECF",
      "U+1ED0", "U+1ED1", "U+1ED2", "U+1ED3", "U+1ED4", "U+1ED5", "U+1ED6", "U+1ED7",
      "U+1ED8", "U+1ED9", "U+1EDA", "U+1EDB", "U+1EDC", "U+1EDD", "U+1EDE", "U+1EDF",
      "U+1EE0", "U+1EE1", "U+1EE2", "U+1EE3", "U+1EE4", "U+1EE5", "U+1EE6", "U+1EE7",
      "U+1EE8", "U+1EE9", "U+1EEA", "U+1EEB", "U+1EEC", "U+1EED", "U+1EEE", "U+1EEF",
      "U+1EF0", "U+1EF1", "U+1EF2", "U+1EF3", "U+1EF4", "U+1EF5", "U+1EF6", "U+1EF7",
      "U+1EF8", "U+1EF9", "U+2000", "U+2001", "U+2002", "U+2003", "U+2004", "U+2005",
      "U+2006", "U+2007", "U+2008", "U+2009", "U+200A", "U+200B", "U+200C", "U+200D",
      "U+200E", "U+200F", "U+2010", "U+2011", "U+2012", "U+2013", "U+2014", "U+2015",
      "U+2016", "U+2017", "U+2018", "U+2019", "U+201A", "U+201B", "U+201C", "U+201D",
      "U+201E", "U+201F", "U+2020", "U+2021", "U+2022", "U+2023", "U+2024", "U+2025",
      "U+2026", "U+2027", "U+2028", "U+2029", "U+202A", "U+202B", "U+202C", "U+202D",
      "U+202E", "U+202F", "U+2030", "U+2031", "U+2032", "U+2033", "U+2034", "U+2035",
      "U+2036", "U+2037", "U+2038", "U+2039", "U+203A", "U+203B", "U+203C", "U+203D",
      "U+203E", "U+203F", "U+2040", "U+2041", "U+2042", "U+2043", "U+2044", "U+2045",
      "U+2046", "U+2048", "U+2049", "U+2070", "U+2071", "U+2074", "U+2075", "U+2076",
      "U+2077", "U+2078", "U+2079", "U+207A", "U+207B", "U+207C", "U+207D", "U+207E",
      "U+207F", "U+2080", "U+2081", "U+2082", "U+2083", "U+2084", "U+2085", "U+2086",
      "U+2087", "U+2088", "U+2089", "U+208A", "U+208B", "U+208C", "U+208D", "U+208E",
      "U+20AC", "U+212A", "U+212B", "U+2212", "U+2264", "U+2265", "U+3000", "U+FB00",
      "U+FB01", "U+FB02", "U+FB03", "U+FB04", "U+FB05", "U+FB06", "U+FF01", "U+FF02",
      "U+FF03", "U+FF04", "U+FF05", "U+FF06", "U+FF07", "U+FF08", "U+FF09", "U+FF0A",
      "U+FF0B", "U+FF0C", "U+FF0D", "U+FF0E", "U+FF0F", "U+FF10", "U+FF11", "U+FF12",
      "U+FF13", "U+FF14", "U+FF15", "U+FF16", "U+FF17", "U+FF18", "U+FF19", "U+FF1A",
      "U+FF1B", "U+FF1C", "U+FF1D", "U+FF1E", "U+FF1F", "U+FF20", "U+FF21", "U+FF22",
      "U+FF23", "U+FF24", "U+FF25", "U+FF26", "U+FF27", "U+FF28", "U+FF29", "U+FF2A",
      "U+FF2B", "U+FF2C", "U+FF2D", "U+FF2E", "U+FF2F", "U+FF30", "U+FF31", "U+FF32",
      "U+FF33", "U+FF34", "U+FF35", "U+FF36", "U+FF37", "U+FF38", "U+FF39", "U+FF3A",
      "U+FF3B", "U+FF3C", "U+FF3D", "U+FF3E", "U+FF3F", "U+FF40", "U+FF41", "U+FF42",
      "U+FF43", "U+FF44", "U+FF45", "U+FF46", "U+FF47", "U+FF48", "U+FF49", "U+FF4A",
      "U+FF4B", "U+FF4C", "U+FF4D", "U+FF4E", "U+FF4F", "U+FF50", "U+FF51", "U+FF52",
      "U+FF53", "U+FF54", "U+FF55", "U+FF56", "U+FF57", "U+FF58", "U+FF59", "U+FF5A",
      "U+FF5B", "U+FF5C", "U+FF5D", "U+FF5E", "U+1D400", "U+1D401", "U+1D402", "U+1D403",
      "U+1D404", "U+1D405", "U+1D406", "U+1D407", "U+1D408", "U+1D409", "U+1D40A", "U+1D40B",
      "U+1D40C", "U+1D40D", "U+1D40E", "U+1D40F", "U+1D410", "U+1D411", "U+1D412", "U+1D413",
      "U+1D414", "U+1D415", "U+1D416", "U+1D417", "U+1D418", "U+1D419", "U+1D41A", "U+1D41B",
      "U+1D41C", "U+1D41D", "U+1D41E", "U+1D41F", "U+1D420", "U+1D421", "U+1D422", "U+1D423",
      "U+1D424", "U+1D425", "U+1D426", "U+1D427", "U+1D428", "U+1D429", "U+1D42A", "U+1D42B",
      "U+1D42C", "U+1D42D", "U+1D42E", "U+1D42F", "U+1D430", "U+1D431", "U+1D432", "U+1D433",
      "U+1D434", "U+1D435", "U+1D436", "U+1D437", "U+1D438", "U+1D439", "U+1D43A", "U+1D43B",
      "U+1D43C", "U+1D43D", "U+1D43E", "U+1D43F", "U+1D440", "U+1D441", "U+1D442", "U+1D443",
      "U+1D444", "U+1D445", "U+1D446", "U+1D447", "U+1D448", "U+1D449", "U+1D44A", "U+1D44B",
      "U+1D44C", "U+1D44D", "U+1D44E", "U+1D44F", "U+1D450", "U+1D451", "U+1D452", "U+1D453",
      "U+1D454", "U+1D456", "U+1D457", "U+1D458", "U+1D459", "U+1D45A", "U+1D45B", "U+1D45C",
      "U+1D45D", "U+1D45E", "U+1D45F", "U+1D460", "U+1D461", "U+1D462", "U+1D463", "U+1D464",
      "U+1D465", "U+1D466", "U+1D467", "U+1D468", "U+1D469", "U+1D46A", "U+1D46B", "U+1D46C",
      "U+1D46D", "U+1D46E", "U+1D46F", "U+1D470", "U+1D471", "U+1D472", "U+1D473", "U+1D474",
      "U+1D475", "U+1D476", "U+1D477", "U+1D478", "U+1D479", "U+1D47A", "U+1D47B", "U+1D47C",
      "U+1D47D", "U+1D47E", "U+1D47F", "U+1D480", "U+1D481", "U+1D482", "U+1D483", "U+1D484",
      "U+1D485", "U+1D486", "U+1D487", "U+1D488", "U+1D489", "U+1D48A", "U+1D48B", "U+1D48C",
      "U+1D48D", "U+1D48E", "U+1D48F", "U+1D490", "U+1D491", "U+1D492", "U+1D493", "U+1D494",
      "U+1D495", "U+1D496", "U+1D497", "U+1D498", "U+1D499", "U+1D49A", "U+1D49B", "U+1D49C",
      "U+1D49E", "U+1D49F", "U+1D4A2", "U+1D4A5", "U+1D4A6", "U+1D4A9", "U+1D4AA", "U+1D4AB",
      "U+1D4AC", "U+1D4AE", "U+1D4AF", "U+1D4B0", "U+1D4B1", "U+1D4B2", "U+1D4B3", "U+1D4B4",
      "U+1D4B5", "U+1D4B6", "U+1D4B7", "U+1D4B8", "U+1D4B9", "U+1D4BB", "U+1D4BD", "U+1D4BE",
      "U+1D4BF", "U+1D4C0", "U+1D4C1", "U+1D4C2", "U+1D4C3", "U+1D4C5", "U+1D4C6", "U+1D4C7",
      "U+1D4C8", "U+1D4C9", "U+1D4CA", "U+1D4CB", "U+1D4CC", "U+1D4CD", "U+1D4CE", "U+1D4CF",
      "U+1D4D0", "U+1D4D1", "U+1D4D2", "U+1D4D3", "U+1D4D4", "U+1D4D5", "U+1D4D6", "U+1D4D7",
      "U+1D4D8", "U+1D4D9", "U+1D4DA", "U+1D4DB", "U+1D4DC", "U+1D4DD", "U+1D4DE", "U+1D4DF",
      "U+1D4E0", "U+1D4E1", "U+1D4E2", "U+1D4E3", "U+1D4E4", "U+1D4E5", "U+1D4E6", "U+1D4E7",
      "U+1D4E8", "U+1D4E9", "U+1D4EA", "U+1D4EB", "U+1D4EC", "U+1D4ED", "U+1D4EE", "U+1D4EF",
      "U+1D4F0", "U+1D4F1", "U+1D4F2", "U+1D4F3", "U+1D4F4", "U+1D4F5", "U+1D4F6", "U+1D4F7",
      "U+1D4F8", "U+1D4F9", "U+1D4FA", "U+1D4FB", "U+1D4FC", "U+1D4FD", "U+1D4FE", "U+1D4FF",
      "U+1D500", "U+1D501", "U+1D502", "U+1D503", "U+1D504", "U+1D505", "U+1D507", "U+1D508",
      "U+1D509", "U+1D50A", "U+1D50D", "U+1D50E", "U+1D50F", "U+1D510", "U+1D511", "U+1D512",
      "U+1D513", "U+1D514", "U+1D516", "U+1D517", "U+1D518", "U+1D519", "U+1D51A", "U+1D51B",
      "U+1D51C", "U+1D51E", "U+1D51F", "U+1D520", "U+1D521", "U+1D522", "U+1D523", "U+1D524",
      "U+1D525", "U+1D526", "U+1D527", "U+1D528", "U+1D529", "U+1D52A", "U+1D52B", "U+1D52C",
      "U+1D52D", "U+1D52E", "U+1D52F", "U+1D530", "U+1D531", "U+1D532", "U+1D533", "U+1D534",
      "U+1D535", "U+1D536", "U+1D537", "U+1D538", "U+1D539", "U+1D53B", "U+1D53C", "U+1D53D",
      "U+1D53E", "U+1D540", "U+1D541", "U+1D542", "U+1D543", "U+1D544", "U+1D546", "U+1D54A",
      "U+1D54B", "U+1D54C", "U+1D54D", "U+1D54E", "U+1D54F", "U+1D550", "U+1D552", "U+1D553",
      "U+1D554", "U+1D555", "U+1D556", "U+1D557", "U+1D558", "U+1D559", "U+1D55A", "U+1D55B",
      "U+1D55C", "U+1D55D", "U+1D55E", "U+1D55F", "U+1D560", "U+1D561", "U+1D562", "U+1D563",
      "U+1D564", "U+1D565", "U+1D566", "U+1D567", "U+1D568", "U+1D569", "U+1D56A", "U+1D56B",
      "U+1D56C", "U+1D56D", "U+1D56E", "U+1D56F", "U+1D570", "U+1D571", "U+1D572", "U+1D573",
      "U+1D574", "U+1D575", "U+1D576", "U+1D577", "U+1D578", "U+1D579", "U+1D57A", "U+1D57B",
      "U+1D57C", "U+1D57D", "U+1D57E", "U+1D57F", "U+1D580", "U+1D581", "U+1D582", "U+1D583",
      "U+1D584", "U+1D585", "U+1D586", "U+1D587", "U+1D588", "U+1D589", "U+1D58A", "U+1D58B",
      "U+1D58C", "U+1D58D", "U+1D58E", "U+1D58F", "U+1D590", "U+1D591", "U+1D592", "U+1D593",
      "U+1D594", "U+1D595", "U+1D596", "U+1D597", "U+1D598", "U+1D599", "U+1D59A", "U+1D59B",
      "U+1D59C", "U+1D59D", "U+1D59E", "U+1D59F", "U+1D5A0", "U+1D5A1", "U+1D5A2", "U+1D5A3",
      "U+1D5A4", "U+1D5A5", "U+1D5A6", "U+1D5A7", "U+1D5A8", "U+1D5A9", "U+1D5AA", "U+1D5AB",
      "U+1D5AC", "U+1D5AD", "U+1D5AE", "U+1D5AF", "U+1D5B0", "U+1D5B1", "U+1D5B2", "U+1D5B3",
      "U+1D5B4", "U+1D5B5", "U+1D5B6", "U+1D5B7", "U+1D5B8", "U+1D5B9", "U+1D5BA", "U+1D5BB",
      "U+1D5BC", "U+1D5BD", "U+1D5BE", "U+1D5BF", "U+1D5C0", "U+1D5C1", "U+1D5C2", "U+1D5C3",
      "U+1D5C4", "U+1D5C5", "U+1D5C6", "U+1D5C7", "U+1D5C8", "U+1D5C9", "U+1D5CA", "U+1D5CB",
      "U+1D5CC", "U+1D5CD", "U+1D5CE", "U+1D5CF", "U+1D5D0", "U+1D5D1", "U+1D5D2", "U+1D5D3",
      "U+1D5D4", "U+1D5D5", "U+1D5D6", "U+1D5D7", "U+1D5D8", "U+1D5D9", "U+1D5DA", "U+1D5DB",
      "U+1D5DC", "U+1D5DD", "U+1D5DE", "U+1D5DF", "U+1D5E0", "U+1D5E1", "U+1D5E2", "U+1D5E3",
      "U+1D5E4", "U+1D5E5", "U+1D5E6", "U+1D5E7", "U+1D5E8", "U+1D5E9", "U+1D5EA", "U+1D5EB",
      "U+1D5EC", "U+1D5ED", "U+1D5EE", "U+1D5EF", "U+1D5F0", "U+1D5F1", "U+1D5F2", "U+1D5F3",
      "U+1D5F4", "U+1D5F5", "U+1D5F6", "U+1D5F7", "U+1D5F8", "U+1D5F9", "U+1D5FA", "U+1D5FB",
      "U+1D5FC", "U+1D5FD", "U+1D5FE", "U+1D5FF", "U+1D600", "U+1D601", "U+1D602", "U+1D603",
      "U+1D604", "U+1D605", "U+1D606", "U+1D607", "U+1D608", "U+1D609", "U+1D60A", "U+1D60B",
      "U+1D60C", "U+1D60D", "U+1D60E", "U+1D60F", "U+1D610", "U+1D611", "U+1D612", "U+1D613",
      "U+1D614", "U+1D615", "U+1D616", "U+1D617", "U+1D618", "U+1D619", "U+1D61A", "U+1D61B",
      "U+1D61C", "U+1D61D", "U+1D61E", "U+1D61F", "U+1D620", "U+1D621", "U+1D622", "U+1D623",
      "U+1D624", "U+1D625", "U+1D626", "U+1D627", "U+1D628", "U+1D629", "U+1D62A", "U+1D62B",
      "U+1D62C", "U+1D62D", "U+1D62E", "U+1D62F", "U+1D630", "U+1D631", "U+1D632", "U+1D633",
      "U+1D634", "U+1D635", "U+1D636", "U+1D637", "U+1D638", "U+1D639", "U+1D63A", "U+1D63B",
      "U+1D63C", "U+1D63D", "U+1D63E", "U+1D63F", "U+1D640", "U+1D641", "U+1D642", "U+1D643",
      "U+1D644", "U+1D645", "U+1D646", "U+1D647", "U+1D648", "U+1D649", "U+1D64A", "U+1D64B",
      "U+1D64C", "U+1D64D", "U+1D64E", "U+1D64F", "U+1D650", "U+1D651", "U+1D652", "U+1D653",
      "U+1D654", "U+1D655", "U+1D656", "U+1D657", "U+1D658", "U+1D659", "U+1D65A", "U+1D65B",
      "U+1D65C", "U+1D65D", "U+1D65E", "U+1D65F", "U+1D660", "U+1D661", "U+1D662", "U+1D663",
      "U+1D664", "U+1D665", "U+1D666", "U+1D667", "U+1D668", "U+1D669", "U+1D66A", "U+1D66B",
      "U+1D66C", "U+1D66D", "U+1D66E", "U+1D66F", "U+1D670", "U+1D671", "U+1D672", "U+1D673",
      "U+1D674", "U+1D675", "U+1D676", "U+1D677", "U+1D678", "U+1D679", "U+1D67A", "U+1D67B",
      "U+1D67C", "U+1D67D", "U+1D67E", "U+1D67F", "U+1D680", "U+1D681", "U+1D682", "U+1D683",
      "U+1D684", "U+1D685", "U+1D686", "U+1D687", "U+1D688", "U+1D689", "U+1D68A", "U+1D68B",
      "U+1D68C", "U+1D68D", "U+1D68E", "U+1D68F", "U+1D690", "U+1D691", "U+1D692", "U+1D693",
      "U+1D694", "U+1D695", "U+1D696", "U+1D697", "U+1D698", "U+1D699", "U+1D69A", "U+1D69B",
      "U+1D69C", "U+1D69D", "U+1D69E", "U+1D69F", "U+1D6A0", "U+1D6A1", "U+1D6A2", "U+1D6A3",
      "U+1D7CE", "U+1D7CF", "U+1D7D0", "U+1D7D1", "U+1D7D2", "U+1D7D3", "U+1D7D4", "U+1D7D5",
      "U+1D7D6", "U+1D7D7", "U+1D7D8", "U+1D7D9", "U+1D7DA", "U+1D7DB", "U+1D7DC", "U+1D7DD",
      "U+1D7DE", "U+1D7DF", "U+1D7E0", "U+1D7E1", "U+1D7E2", "U+1D7E3", "U+1D7E4", "U+1D7E5",
      "U+1D7E6", "U+1D7E7", "U+1D7E8", "U+1D7E9", "U+1D7EA", "U+1D7EB", "U+1D7EC", "U+1D7ED",
      "U+1D7EE", "U+1D7EF", "U+1D7F0", "U+1D7F1", "U+1D7F2", "U+1D7F3", "U+1D7F4", "U+1D7F5",
      "U+1D7F6", "U+1D7F7", "U+1D7F8", "U+1D7F9", "U+1D7FA", "U+1D7FB", "U+1D7FC", "U+1D7FD",
      "U+1D7FE", "U+1D7FF">>

UnidecodeTo ==
    <<<<>>, <<>>, <<>>, <<>>, <<>>, <<>>, <<>>, <<>>, <<>>, <<>>, <<>>, <<>>, <<>>, <<>>,
      <<>>, <<>>, <<>>, <<>>, <<>>, <<>>, <<>>, <<>>, <<>>, <<>>, <<>>, <<>>, <<>>, <<>>,
      <<>>, <<>>, <<>>, <<>>, <<" ">>, <<"!">>, <<"C", "/">>, <<"P", "S">>, <<"$", "?">>,
      <<"Y", "=">>, <<"|">>, <<"S", "S">>, <<"\"">>, <<"(", "c", ")">>, <<"a">>,
      <<"<", "<">>, <<"!">>, <<>>, <<"(", "r", ")">>, <<"-">>, <<"d", "e", "g">>,
      <<"+", "-">>, <<"2">>, <<"3">>, <<"'">>, <<"u">>, <<"P">>, <<"*">>, <<",">>, <<"1">>,
      <<"o">>, <<">", ">">>, <<" ", "1", "/", "4">>, <<" ", "1", "/", "2">>,
      <<" ", "3", "/", "4">>, <<"?">>, <<"A">>, <<"A">>, <<"A">>, <<"A">>, <<"A">>, <<"A">>,
      <<"A", "E">>, <<"C">>, <<"E">>, <<"E">>, <<"E">>, <<"E">>, <<"I">>, <<"I">>, <<"I">>,
      <<"I">>, <<"D">>, <<"N">>, <<"O">>, <<"O">>, <<"O">>, <<"O">>, <<"O">>, <<"x">>,
      <<"O">>, <<"U">>, <<"U">>, <<"U">>, <<"U">>, <<"Y">>, <<"T", "h">>, <<"s", "s">>,
      <<"a">>, <<"a">>, <<"a">>, <<"a">>, <<"a">>, <<"a">>, <<"a", "e">>, <<"c">>, <<"e">>,
      <<"e">>, <<"e">>, <<"e">>, <<"i">>, <<"i">>, <<"i">>, <<"i">>, <<"d">>, <<"n">>,
      <<"o">>, <<"o">>, <<"o">>, <<"o">>, <<"o">>, <<"/">>, <<"o">>, <<"u">>, <<"u">>,
      <<"u">>, <<"u">>, <<"y">>, <<"t", "h">>, <<"y">>, <<"A">>, <<"a">>, <<"A">>, <<"a">>,
      <<"A">>, <<"a">>, <<"C">>, <<"c">>, <<"C">>, <<"c">>, <<"C">>, <<"c">>, <<"C">>,
      <<"c">>, <<"D">>, <<"d">>, <<"D">>, <<"d">>, <<"E">>, <<"e">>, <<"E">>, <<"e">>,
      <<"E">>, <<"e">>, <<"E">>, <<"e">>, <<"E">>, <<"e">>, <<"G">>, <<"g">>, <<"G">>,
      <<"g">>, <<"G">>, <<"g">>, <<"G">>, <<"g">>, <<"H">>, <<"h">>, <<"H">>, <<"h">>,
      <<"I">>, <<"i">>, <<"I">>, <<"i">>, <<"I">>, <<"i">>, <<"I">>, <<"i">>, <<"I">>,
      <<"i">>, <<"I", "J">>, <<"i", "j">>, <<"J">>, <<"j">>, <<"K">>, <<"k">>, <<"k">>,
      <<"L">>, <<"l">>, <<"L">>, <<"l">>, <<"L">>, <<"l">>, <<"L">>, <<"l">>, <<"L">>,
      <<"l">>, <<"N">>, <<"n">>, <<"N">>, <<"n">>, <<"N">>, <<"n">>, <<"'", "n">>,
      <<"n", "g">>, <<"N", "G">>, <<"O">>, <<"o">>, <<"O">>, <<"o">>, <<"O">>, <<"o">>,
      <<"O", "E">>, <<"o", "e">>, <<"R">>, <<"r">>, <<"R">>, <<"r">>, <<"R">>, <<"r">>,
      <<"S">>, <<"s">>, <<"S">>, <<"s">>, <<"S">>, <<"s">>, <<"S">>, <<"s">>, <<"T">>,
      <<"t">>, <<"T">>, <<"t">>, <<"T">>, <<"t">>, <<"U">>, <<"u">>, <<"U">>, <<"u">>,
      <<"U">>, <<"u">>, <<"U">>, <<"u">>, <<"U">>, <<"u">>, <<"U">>, <<"u">>, <<"W">>,
      <<"w">>, <<"Y">>, <<"y">>, <<"Y">>, <<"Z">>, <<"z">>, <<"Z">>, <<"z">>, <<"Z">>,
      <<"z">>, <<"s">>, <<"f">>, <<"O">>, <<"o">>, <<"U">>, <<"u">>, <<"D", "Z">>,
      <<"D", "z">>, <<"d", "z">>, <<"L", "J">>, <<"L", "j">>, <<"l", "j">>, <<"N", "J">>,
      <<"N", "j">>, <<"n", "j">>, <<"A">>, <<"a">>, <<"I">>, <<"i">>, <<"O">>, <<"o">>,
      <<"U">>, <<"u">>, <<"U">>, <<"u">>, <<"U">>, <<"u">>, <<"U">>, <<"u">>, <<"U">>,
      <<"u">>, <<"A">>, <<"a">>, <<"A">>, <<"a">>, <<"A", "E">>, <<"a", "e">>, <<"G">>,
      <<"g">>, <<"K">>, <<"k">>, <<"O">>, <<"o">>, <<"O">>, <<"o">>, <<"j">>, <<"D", "Z">>,
      <<"D", "z">>, <<"d", "z">>, <<"G">>, <<"g">>, <<"N">>, <<"n">>, <<"A">>, <<"a">>,
      <<"A", "E">>, <<"a", "e">>, <<"O">>, <<"o">>, <<"A">>, <<"a">>, <<"A">>, <<"a">>,
      <<"E">>, <<"e">>, <<"E">>, <<"e">>, <<"I">>, <<"i">>, <<"I">>, <<"i">>, <<"O">>,
      <<"o">>, <<"O">>, <<"o">>, <<"R">>, <<"r">>, <<"R">>, <<"r">>, <<"U">>, <<"u">>,
      <<"U">>, <<"u">>, <<"S">>, <<"s">>, <<"T">>, <<"t">>, <<"H">>, <<"h">>, <<"A">>,
      <<"a">>, <<"E">>, <<"e">>, <<"O">>, <<"o">>, <<"O">>, <<"o">>, <<"O">>, <<"o">>,
      <<"O">>, <<"o">>, <<"Y">>, <<"y">>, <<>>, <<>>, <<>>, <<>>, <<>>, <<>>, <<>>, <<>>,
      <<>>, <<>>, <<>>, <<>>, <<>>, <<>>, <<>>, <<>>, <<>>, <<>>, <<>>, <<>>, <<>>, <<>>,
      <<>>, <<>>, <<>>, <<>>, <<>>, <<>>, <<>>, <<>>, <<>>, <<>>, <<>>, <<>>, <<>>, <<>>,
      <<>>, <<>>, <<>>, <<>>, <<>>, <<>>, <<>>, <<>>, <<>>, <<>>, <<>>, <<>>, <<>>, <<>>,
      <<>>, <<>>, <<>>, <<>>, <<>>, <<>>, <<>>, <<>>, <<>>, <<>>, <<>>, <<>>, <<>>, <<>>,
      <<>>, <<>>, <<>>, <<>>, <<>>, <<>>, <<>>, <<>>, <<>>, <<>>, <<>>, <<>>, <<>>, <<>>,
      <<>>, <<>>, <<>>, <<>>, <<>>, <<>>, <<>>, <<>>, <<>>, <<>>, <<>>, <<>>, <<>>, <<>>,
      <<>>, <<>>, <<>>, <<>>, <<>>, <<>>, <<>>, <<"a">>, <<"e">>, <<"i">>, <<"o">>, <<"u">>,
      <<"c">>, <<"d">>, <<"h">>, <<"m">>, <<"r">>, <<"t">>, <<"v">>, <<"x">>, <<"I", "o">>,
      <<"A">>, <<"B">>, <<"V">>, <<"G">>, <<"D">>, <<"E">>, <<"Z", "h">>, <<"Z">>, <<"I">>,
      <<"I">>, <<"K">>, <<"L">>, <<"M">>, <<"N">>, <<"O">>, <<"P">>, <<"R">>, <<"S">>,
      <<"T">>, <<"U">>, <<"F">>, <<"K", "h">>, <<"T", "s">>, <<"C", "h">>, <<"S", "h">>,
      <<"S", "h", "c", "h">>, <<"'">>, <<"Y">>, <<"'">>, <<"E">>, <<"I", "u">>, <<"I", "a">>,
      <<"a">>, <<"b">>, <<"v">>, <<"g">>, <<"d">>, <<"e">>, <<"z", "h">>, <<"z">>, <<"i">>,
      <<"i">>, <<"k">>, <<"l">>, <<"m">>, <<"n">>, <<"o">>, <<"p">>, <<"r">>, <<"s">>,
      <<"t">>, <<"u">>, <<"f">>, <<"k", "h">>, <<"t", "s">>, <<"c", "h">>, <<"s", "h">>,
      <<"s", "h", "c", "h">>, <<"'">>, <<"y">>, <<"'">>, <<"e">>, <<"i", "u">>, <<"i", "a">>,
      <<"i", "o">>, <<"A">>, <<"a">>, <<"B">>, <<"b">>, <<"B">>, <<"b">>, <<"B">>, <<"b">>,
      <<"C">>, <<"c">>, <<"D">>, <<"d">>, <<"D">>, <<"d">>, <<"D">>, <<"d">>, <<"D">>,
      <<"d">>, <<"D">>, <<"d">>, <<"E">>, <<"e">>, <<"E">>, <<"e">>, <<"E">>, <<"e">>,
      <<"E">>, <<"e">>, <<"E">>, <<"e">>, <<"F">>, <<"f">>, <<"G">>, <<"g">>, <<"H">>,
      <<"h">>, <<"H">>, <<"h">>, <<"H">>, <<"h">>, <<"H">>, <<"h">>, <<"H">>, <<"h">>,
      <<"I">>, <<"i">>, <<"I">>, <<"i">>, <<"K">>, <<"k">>, <<"K">>, <<"k">>, <<"K">>,
      <<"k">>, <<"L">>, <<"l">>, <<"L">>, <<"l">>, <<"L">>, <<"l">>, <<"L">>, <<"l">>,
      <<"M">>, <<"m">>, <<"M">>, <<"m">>, <<"M">>, <<"m">>, <<"N">>, <<"n">>, <<"N">>,
      <<"n">>, <<"N">>, <<"n">>, <<"N">>, <<"n">>, <<"O">>, <<"o">>, <<"O">>, <<"o">>,
      <<"O">>, <<"o">>, <<"O">>, <<"o">>, <<"P">>, <<"p">>, <<"P">>, <<"p">>, <<"R">>,
      <<"r">>, <<"R">>, <<"r">>, <<"R">>, <<"r">>, <<"R">>, <<"r">>, <<"S">>, <<"s">>,
      <<"S">>, <<"s">>, <<"S">>, <<"s">>, <<"S">>, <<"s">>, <<"S">>, <<"s">>, <<"T">>,
      <<"t">>, <<"T">>, <<"t">>, <<"T">>, <<"t">>, <<"T">>, <<"t">>, <<"U">>, <<"u">>,
      <<"U">>, <<"u">>, <<"U">>, <<"u">>, <<"U">>, <<"u">>, <<"U">>, <<"u">>, <<"V">>,
      <<"v">>, <<"V">>, <<"v">>, <<"W">>, <<"w">>, <<"W">>, <<"w">>, <<"W">>, <<"w">>,
      <<"W">>, <<"w">>, <<"W">>, <<"w">>, <<"X">>, <<"x">>, <<"X">>, <<"x">>, <<"Y">>,
      <<"y">>, <<"Z">>, <<"z">>, <<"Z">>, <<"z">>, <<"Z">>, <<"z">>, <<"h">>, <<"t">>,
      <<"w">>, <<"y">>, <<"A">>, <<"a">>, <<"A">>, <<"a">>, <<"A">>, <<"a">>, <<"A">>,
      <<"a">>, <<"A">>, <<"a">>, <<"A">>, <<"a">>, <<"A">>, <<"a">>, <<"A">>, <<"a">>,
      <<"A">>, <<"a">>, <<"A">>, <<"a">>, <<"A">>, <<"a">>, <<"A">>, <<"a">>, <<"E">>,
      <<"e">>, <<"E">>, <<"e">>, <<"E">>, <<"e">>, <<"E">>, <<"e">>, <<"E">>, <<"e">>,
      <<"E">>, <<"e">>, <<"E">>, <<"e">>, <<"E">>, <<"e">>, <<"I">>, <<"i">>, <<"I">>,
      <<"i">>, <<"O">>, <<"o">>, <<"O">>, <<"o">>, <<"O">>, <<"o">>, <<"O">>, <<"o">>,
      <<"O">>, <<"o">>, <<"O">>, <<"o">>, <<"O">>, <<"o">>, <<"O">>, <<"o">>, <<"O">>,
      <<"o">>, <<"O">>, <<"o">>, <<"O">>, <<"o">>, <<"O">>, <<"o">>, <<"U">>, <<"u">>,
      <<"U">>, <<"u">>, <<"U">>, <<"u">>, <<"U">>, <<"u">>, <<"U">>, <<"u">>, <<"U">>,
      <<"u">>, <<"U">>, <<"u">>, <<"Y">>, <<"y">>, <<"Y">>, <<"y">>, <<"Y">>, <<"y">>,
      <<"Y">>, <<"y">>, <<" ">>, <<" ">>, <<" ">>, <<" ">>, <<" ">>, <<" ">>, <<" ">>,
      <<" ">>, <<" ">>, <<" ">>, <<" ">>, <<>>, <<>>, <<>>, <<>>, <<>>, <<"-">>, <<"-">>,
      <<"-">>, <<"-">>, <<"-", "-">>, <<"-", "-">>, <<"|", "|">>, <<"_">>, <<"'">>, <<"'">>,
      <<",">>, <<"'">>, <<"\"">>, <<"\"">>, <<",", ",">>, <<"\"">>, <<"+">>, <<"+", "+">>,
      <<"*">>, <<"*", ">">>, <<".">>, <<".", ".">>, <<".", ".", ".">>, <<".">>, <<"\n">>,
      <<"\n", "\n">>, <<>>, <<>>, <<>>, <<>>, <<>>, <<" ">>, <<"%", "0">>, <<"%", "0", "0">>,
      <<"'">>, <<"'", "'">>, <<"'", "'", "'">>, <<"U+0060">>, <<"U+0060", "U+0060">>,
      <<"U+0060", "U+0060", "U+0060">>, <<"^">>, <<"<">>, <<">">>, <<"*">>, <<"!", "!">>,
      <<"!", "?">>, <<"-">>, <<"_">>, <<"-">>, <<"^">>, <<"*", "*", "*">>, <<"-", "-">>,
      <<"/">>, <<"-", "[">>, <<"]", "-">>, <<"?", "!">>, <<"!", "?">>, <<"0">>, <<"i">>,
      <<"4">>, <<"5">>, <<"6">>, <<"7">>, <<"8">>, <<"9">>, <<"+">>, <<"-">>, <<"=">>,
      <<"(">>, <<")">>, <<"n">>, <<"0">>, <<"1">>, <<"2">>, <<"3">>, <<"4">>, <<"5">>,
      <<"6">>, <<"7">>, <<"8">>, <<"9">>, <<"+">>, <<"-">>, <<"=">>, <<"(">>, <<")">>,
      <<"E", "U", "R">>, <<"K">>, <<"A">>, <<"-">>, <<"<", "=">>, <<">", "=">>, <<" ">>,
      <<"f", "f">>, <<"f", "i">>, <<"f", "l">>, <<"f", "f", "i">>, <<"f", "f", "l">>,
      <<"s", "t">>, <<"s", "t">>, <<"!">>, <<"\"">>, <<"#">>, <<"$">>, <<"%">>, <<"&">>,
      <<"'">>, <<"(">>, <<")">>, <<"*">>, <<"+">>, <<",">>, <<"-">>, <<".">>, <<"/">>,
      <<"0">>, <<"1">>, <<"2">>, <<"3">>, <<"4">>, <<"5">>, <<"6">>, <<"7">>, <<"8">>,
      <<"9">>, <<":">>, <<";">>, <<"<">>, <<"=">>, <<">">>, <<"?">>, <<"@">>, <<"A">>,
      <<"B">>, <<"C">>, <<"D">>, <<"E">>, <<"F">>, <<"G">>, <<"H">>, <<"I">>, <<"J">>,
      <<"K">>, <<"L">>, <<"M">>, <<"N">>, <<"O">>, <<"P">>, <<"Q">>, <<"R">>, <<"S">>,
      <<"T">>, <<"U">>, <<"V">>, <<"W">>, <<"X">>, <<"Y">>, <<"Z">>, <<"[">>, <<"\\">>,
      <<"]">>, <<"^">>, <<"_">>, <<"U+0060">>, <<"a">>, <<"b">>, <<"c">>, <<"d">>, <<"e">>,
      <<"f">>, <<"g">>, <<"h">>, <<"i">>, <<"j">>, <<"k">>, <<"l">>, <<"m">>, <<"n">>,
      <<"o">>, <<"p">>, <<"q">>, <<"r">>, <<"s">>, <<"t">>, <<"u">>, <<"v">>, <<"w">>,
      <<"x">>, <<"y">>, <<"z">>, <<"{">>, <<"|">>, <<"}">>, <<"~">>, <<"A">>, <<"B">>,
      <<"C">>, <<"D">>, <<"E">>, <<"F">>, <<"G">>, <<"H">>, <<"I">>, <<"J">>, <<"K">>,
      <<"L">>, <<"M">>, <<"N">>, <<"O">>, <<"P">>, <<"Q">>, <<"R">>, <<"S">>, <<"T">>,
      <<"U">>, <<"V">>, <<"W">>, <<"X">>, <<"Y">>, <<"Z">>, <<"a">>, <<"b">>, <<"c">>,
      <<"d">>, <<"e">>, <<"f">>, <<"g">>, <<"h">>, <<"i">>, <<"j">>, <<"k">>, <<"l">>,
      <<"m">>, <<"n">>, <<"o">>, <<"p">>, <<"q">>, <<"r">>, <<"s">>, <<"t">>, <<"u">>,
      <<"v">>, <<"w">>, <<"x">>, <<"y">>, <<"z">>, <<"A">>, <<"B">>, <<"C">>, <<"D">>,
      <<"E">>, <<"F">>, <<"G">>, <<"H">>, <<"I">>, <<"J">>, <<"K">>, <<"L">>, <<"M">>,
      <<"N">>, <<"O">>, <<"P">>, <<"Q">>, <<"R">>, <<"S">>, <<"T">>, <<"U">>, <<"V">>,
      <<"W">>, <<"X">>, <<"Y">>, <<"Z">>, <<"a">>, <<"b">>, <<"c">>, <<"d">>, <<"e">>,
      <<"f">>, <<"g">>, <<"i">>, <<"j">>, <<"k">>, <<"l">>, <<"m">>, <<"n">>, <<"o">>,
      <<"p">>, <<"q">>, <<"r">>, <<"s">>, <<"t">>, <<"u">>, <<"v">>, <<"w">>, <<"x">>,
      <<"y">>, <<"z">>, <<"A">>, <<"B">>, <<"C">>, <<"D">>, <<"E">>, <<"F">>, <<"G">>,
      <<"H">>, <<"I">>, <<"J">>, <<"K">>, <<"L">>, <<"M">>, <<"N">>, <<"O">>, <<"P">>,
      <<"Q">>, <<"R">>, <<"S">>, <<"T">>, <<"U">>, <<"V">>, <<"W">>, <<"X">>, <<"Y">>,
      <<"Z">>, <<"a">>, <<"b">>, <<"c">>, <<"d">>, <<"e">>, <<"f">>, <<"g">>, <<"h">>,
      <<"i">>, <<"j">>, <<"k">>, <<"l">>, <<"m">>, <<"n">>, <<"o">>, <<"p">>, <<"q">>,
      <<"r">>, <<"s">>, <<"t">>, <<"u">>, <<"v">>, <<"w">>, <<"x">>, <<"y">>, <<"z">>,
      <<"A">>, <<"C">>, <<"D">>, <<"G">>, <<"J">>, <<"K">>, <<"N">>, <<"O">>, <<"P">>,
      <<"Q">>, <<"S">>, <<"T">>, <<"U">>, <<"V">>, <<"W">>, <<"X">>, <<"Y">>, <<"Z">>,
      <<"a">>, <<"b">>, <<"c">>, <<"d">>, <<"f">>, <<"h">>, <<"i">>, <<"j">>, <<"k">>,
      <<"l">>, <<"m">>, <<"n">>, <<"p">>, <<"q">>, <<"r">>, <<"s">>, <<"t">>, <<"u">>,
      <<"v">>, <<"w">>, <<"x">>, <<"y">>, <<"z">>, <<"A">>, <<"B">>, <<"C">>, <<"D">>,
      <<"E">>, <<"F">>, <<"G">>, <<"H">>, <<"I">>, <<"J">>, <<"K">>, <<"L">>, <<"M">>,
      <<"N">>, <<"O">>, <<"P">>, <<"Q">>, <<"R">>, <<"S">>, <<"T">>, <<"U">>, <<"V">>,
      <<"W">>, <<"X">>, <<"Y">>, <<"Z">>, <<"a">>, <<"b">>, <<"c">>, <<"d">>, <<"e">>,
      <<"f">>, <<"g">>, <<"h">>, <<"i">>, <<"j">>, <<"k">>, <<"l">>, <<"m">>, <<"n">>,
      <<"o">>, <<"p">>, <<"q">>, <<"r">>, <<"s">>, <<"t">>, <<"u">>, <<"v">>, <<"w">>,
      <<"x">>, <<"y">>, <<"z">>, <<"A">>, <<"B">>, <<"D">>, <<"E">>, <<"F">>, <<"G">>,
      <<"J">>, <<"K">>, <<"L">>, <<"M">>, <<"N">>, <<"O">>, <<"P">>, <<"Q">>, <<"S">>,
      <<"T">>, <<"U">>, <<"V">>, <<"W">>, <<"X">>, <<"Y">>, <<"a">>, <<"b">>, <<"c">>,
      <<"d">>, <<"e">>, <<"f">>, <<"g">>, <<"h">>, <<"i">>, <<"j">>, <<"k">>, <<"l">>,
      <<"m">>, <<"n">>, <<"o">>, <<"p">>, <<"q">>, <<"r">>, <<"s">>, <<"t">>, <<"u">>,
      <<"v">>, <<"w">>, <<"x">>, <<"y">>, <<"z">>, <<"A">>, <<"B">>, <<"D">>, <<"E">>,
      <<"F">>, <<"G">>, <<"I">>, <<"J">>, <<"K">>, <<"L">>, <<"M">>, <<"O">>, <<"S">>,
      <<"T">>, <<"U">>, <<"V">>, <<"W">>, <<"X">>, <<"Y">>, <<"a">>, <<"b">>, <<"c">>,
      <<"d">>, <<"e">>, <<"f">>, <<"g">>, <<"h">>, <<"i">>, <<"j">>, <<"k">>, <<"l">>,
      <<"m">>, <<"n">>, <<"o">>, <<"p">>, <<"q">>, <<"r">>, <<"s">>, <<"t">>, <<"u">>,
      <<"v">>, <<"w">>, <<"x">>, <<"y">>, <<"z">>, <<"A">>, <<"B">>, <<"C">>, <<"D">>,
      <<"E">>, <<"F">>, <<"G">>, <<"H">>, <<"I">>, <<"J">>, <<"K">>, <<"L">>, <<"M">>,
      <<"N">>, <<"O">>, <<"P">>, <<"Q">>, <<"R">>, <<"S">>, <<"T">>, <<"U">>, <<"V">>,
      <<"W">>, <<"X">>, <<"Y">>, <<"Z">>, <<"a">>, <<"b">>, <<"c">>, <<"d">>, <<"e">>,
      <<"f">>, <<"g">>, <<"h">>, <<"i">>, <<"j">>, <<"k">>, <<"l">>, <<"m">>, <<"n">>,
      <<"o">>, <<"p">>, <<"q">>, <<"r">>, <<"s">>, <<"t">>, <<"u">>, <<"v">>, <<"w">>,
      <<"x">>, <<"y">>, <<"z">>, <<"A">>, <<"B">>, <<"C">>, <<"D">>, <<"E">>, <<"F">>,
      <<"G">>, <<"H">>, <<"I">>, <<"J">>, <<"K">>, <<"L">>, <<"M">>, <<"N">>, <<"O">>,
      <<"P">>, <<"Q">>, <<"R">>, <<"S">>, <<"T">>, <<"U">>, <<"V">>, <<"W">>, <<"X">>,
      <<"Y">>, <<"Z">>, <<"a">>, <<"b">>, <<"c">>, <<"d">>, <<"e">>, <<"f">>, <<"g">>,
      <<"h">>, <<"i">>, <<"j">>, <<"k">>, <<"l">>, <<"m">>, <<"n">>, <<"o">>, <<"p">>,
      <<"q">>, <<"r">>, <<"s">>, <<"t">>, <<"u">>, <<"v">>, <<"w">>, <<"x">>, <<"y">>,
      <<"z">>, <<"A">>, <<"B">>, <<"C">>, <<"D">>, <<"E">>, <<"F">>, <<"G">>, <<"H">>,
      <<"I">>, <<"J">>, <<"K">>, <<"L">>, <<"M">>, <<"N">>, <<"O">>, <<"P">>, <<"Q">>,
      <<"R">>, <<"S">>, <<"T">>, <<"U">>, <<"V">>, <<"W">>, <<"X">>, <<"Y">>, <<"Z">>,
      <<"a">>, <<"b">>, <<"c">>, <<"d">>, <<"e">>, <<"f">>, <<"g">>, <<"h">>, <<"i">>,
      <<"j">>, <<"k">>, <<"l">>, <<"m">>, <<"n">>, <<"o">>, <<"p">>, <<"q">>, <<"r">>,
      <<"s">>, <<"t">>, <<"u">>, <<"v">>, <<"w">>, <<"x">>, <<"y">>, <<"z">>, <<"A">>,
      <<"B">>, <<"C">>, <<"D">>, <<"E">>, <<"F">>, <<"G">>, <<"H">>, <<"I">>, <<"J">>,
      <<"K">>, <<"L">>, <<"M">>, <<"N">>, <<"O">>, <<"P">>, <<"Q">>, <<"R">>, <<"S">>,
      <<"T">>, <<"U">>, <<"V">>, <<"W">>, <<"X">>, <<"Y">>, <<"Z">>, <<"a">>, <<"b">>,
      <<"c">>, <<"d">>, <<"e">>, <<"f">>, <<"g">>, <<"h">>, <<"i">>, <<"j">>, <<"k">>,
      <<"l">>, <<"m">>, <<"n">>, <<"o">>, <<"p">>, <<"q">>, <<"r">>, <<"s">>, <<"t">>,
      <<"u">>, <<"v">>, <<"w">>, <<"x">>, <<"y">>, <<"z">>, <<"A">>, <<"B">>, <<"C">>,
      <<"D">>, <<"E">>, <<"F">>, <<"G">>, <<"H">>, <<"I">>, <<"J">>, <<"K">>, <<"L">>,
      <<"M">>, <<"N">>, <<"O">>, <<"P">>, <<"Q">>, <<"R">>, <<"S">>, <<"T">>, <<"U">>,
      <<"V">>, <<"W">>, <<"X">>, <<"Y">>, <<"Z">>, <<"a">>, <<"b">>, <<"c">>, <<"d">>,
      <<"e">>, <<"f">>, <<"g">>, <<"h">>, <<"i">>, <<"j">>, <<"k">>, <<"l">>, <<"m">>,
      <<"n">>, <<"o">>, <<"p">>, <<"q">>, <<"r">>, <<"s">>, <<"t">>, <<"u">>, <<"v">>,
      <<"w">>, <<"x">>, <<"y">>, <<"z">>, <<"A">>, <<"B">>, <<"C">>, <<"D">>, <<"E">>,
      <<"F">>, <<"G">>, <<"H">>, <<"I">>, <<"J">>, <<"K">>, <<"L">>, <<"M">>, <<"N">>,
      <<"O">>, <<"P">>, <<"Q">>, <<"R">>, <<"S">>, <<"T">>, <<"U">>, <<"V">>, <<"W">>,
      <<"X">>, <<"Y">>, <<"Z">>, <<"a">>, <<"b">>, <<"c">>, <<"d">>, <<"e">>, <<"f">>,
      <<"g">>, <<"h">>, <<"i">>, <<"j">>, <<"k">>, <<"l">>, <<"m">>, <<"n">>, <<"o">>,
      <<"p">>, <<"q">>, <<"r">>, <<"s">>, <<"t">>, <<"u">>, <<"v">>, <<"w">>, <<"x">>,
      <<"y">>, <<"z">>, <<"0">>, <<"1">>, <<"2">>, <<"3">>, <<"4">>, <<"5">>, <<"6">>,
      <<"7">>, <<"8">>, <<"9">>, <<"0">>, <<"1">>, <<"2">>, <<"3">>, <<"4">>, <<"5">>,
      <<"6">>, <<"7">>, <<"8">>, <<"9">>, <<"0">>, <<"1">>, <<"2">>, <<"3">>, <<"4">>,
      <<"5">>, <<"6">>, <<"7">>, <<"8">>, <<"9">>, <<"0">>, <<"1">>, <<"2">>, <<"3">>,
      <<"4">>, <<"5">>, <<"6">>, <<"7">>, <<"8">>, <<"9">>, <<"0">>, <<"1">>, <<"2">>,
      <<"3">>, <<"4">>, <<"5">>, <<"6">>, <<"7">>, <<"8">>, <<"9">>>>

\* The characters U+0000 to U+007F, which unidecode() returns as they are.
Ascii ==
    {"U+0000", "U+0001", "U+0002", "U+0003", "U+0004", "U+0005", "U+0006", "U+0007",
     "U+0008", "\t", "\n", "U+000B", "\f", "\r", "U+000E", "U+000F", "U+0010", "U+0011",
     "U+0012", "U+0013", "U+0014", "U+0015", "U+0016", "U+0017", "U+0018", "U+0019",
     "U+001A", "U+001B", "U+001C", "U+001D", "U+001E", "U+001F", " ", "!", "\"", "#", "$",
     "%", "&", "'", "(", ")", "*", "+", ",", "-", ".", "/", "0", "1", "2", "3", "4", "5",
     "6", "7", "8", "9", ":", ";", "<", "=", ">", "?", "@", "A", "B", "C", "D", "E", "F",
     "G", "H", "I", "J", "K", "L", "M", "N", "O", "P", "Q", "R", "S", "T", "U", "V", "W",
     "X", "Y", "Z", "[", "\\", "]", "^", "_", "U+0060", "a", "b", "c", "d", "e", "f", "g",
     "h", "i", "j", "k", "l", "m", "n", "o", "p", "q", "r", "s", "t", "u", "v", "w", "x",
     "y", "z", "{", "|", "}", "~", "U+007F"}

\* unidecode() on one character.  It has no value for a character that is
\* neither ASCII nor in the tables above: what the library gives for it is
\* not part of the model.
UnidecodeChar(c) ==
    IF c \in Ascii THEN <<c>>
    ELSE UnidecodeTo[CHOOSE i \in 1..Len(UnidecodeFrom) : UnidecodeFrom[i] = c]

RECURSIVE UnidecodeFromPos(_, _)
UnidecodeFromPos(s, i) ==
    IF i > Len(s) THEN <<>> ELSE UnidecodeChar(s[i]) \o UnidecodeFromPos(s, i + 1)

\* unidecode()
Unidecode(s) ==
    IF \A i \in 1..Len(s) : s[i] \in Ascii THEN s
    ELSE UnidecodeFromPos(s, 1)
RECURSIVE LStrip(_)
LStrip(s) == IF s # <<>> /\ Head(s) \in Whitespace THEN LStrip(Tail(s)) ELSE s

RECURSIVE RStrip(_)
RStrip(s) ==
    IF s # <<>> /\ s[Len(s)] \in Whitespace
    THEN RStrip(SubSeq(s, 1, Len(s) - 1)) ELSE s

\* str.strip()
Strip(s) == RStrip(LStrip(s))

\* sub in s
Contains(s, sub) ==
    \/ sub = <<>>
    \/ \E i \in 1..(Len(s) - Len(sub) + 1) :
          s[i] = sub[1] /\ SubSeq(s, i, i + Len(sub) - 1) = sub

\* s.replace(a, b) for single characters a, b
ReplaceChar(s, a, b) == [i \in 1..Len(s) |-> IF s[i] = a THEN b ELSE s[i]]

\* s.replace(a, "") for a single character a
RemoveChar(s, a) == SelectSeq(s, LAMBDA c : c # a)

\* s.replace(sub, ""): every non-overlapping occurrence, left to right
RECURSIVE RemoveSub(_, _)
RemoveSub(s, sub) ==
    LET At(i) == s[i] = sub[1] /\ SubSeq(s, i, i + Len(sub) - 1) = sub
        range == 1..(Len(s) - Len(sub) + 1)
    IN  IF \A i \in range : ~At(i) THEN s
        ELSE LET first == CHOOSE i \in range : At(i) /\ \A j \in 1..(i - 1) : ~At(j)
             IN  SubSeq(s, 1, first - 1)
                     \o RemoveSub(SubSeq(s, first + Len(sub), Len(s)), sub)

\* Index of the first occurrence of character c in s, 0 when there is none.
IndexOf(s, c) ==
    IF \E i \in 1..Len(s) : s[i] = c
    THEN CHOOSE i \in 1..Len(s) : s[i] = c /\ \A j \in 1..(i - 1) : s[j] # c
    ELSE 0

\* s.split(c, 1): parts[0], and parts[1] (None when the split gives one part)
SplitHead(s, c) == IF IndexOf(s, c) = 0 THEN s ELSE SubSeq(s, 1, IndexOf(s, c) - 1)

SplitRest(s, c) ==
    IF IndexOf(s, c) = 0 THEN None ELSE SubSeq(s, IndexOf(s, c) + 1, Len(s))

\* -------------------------------------------------- BaseExtractor._clean_number
NumChars == Digits \cup {"."}

\* re.search(r"[\d\.]+", clean).group(): the first maximal run, None when no match
FirstRun(clean) ==
    IF \A i \in 1..Len(clean) : clean[i] \notin NumChars THEN None
    ELSE LET a == CHOOSE i \in 1..Len(clean) :
                      clean[i] \in NumChars /\ \A j \in 1..(i - 1) : clean[j] \notin NumChars
             b == CHOOSE i \in a..Len(clean) :
                      /\ (i = Len(clean) \/ clean[i + 1] \notin NumChars)
                      /\ \A j \in a..i : clean[j] \in NumChars
         IN  SubSeq(clean, a, b)

\* A decimal numeral is a pair of sequences of digit values: its whole part
\* ip without leading zeros and its fraction part fp without trailing zeros.
TrimLeading(vs) ==
    IF \A i \in 1..Len(vs) : vs[i] = 0 THEN <<>>
    ELSE SubSeq(vs, CHOOSE i \in 1..Len(vs) : vs[i] # 0 /\ \A j \in 1..(i - 1) : vs[j] = 0,
                Len(vs))

TrimTrailing(vs) ==
    IF \A i \in 1..Len(vs) : vs[i] = 0 THEN <<>>
    ELSE SubSeq(vs, 1,
                CHOOSE i \in 1..Len(vs) : vs[i] # 0 /\ \A j \in (i + 1)..Len(vs) : vs[j] = 0)

\* The natural number of a sequence of digit values.
RECURSIVE ToNat(_)
ToNat(vs) == IF vs = <<>> THEN 0 ELSE 10 * ToNat(SubSeq(vs, 1, Len(vs) - 1)) + vs[Len(vs)]

RECURSIVE Pow2(_)
Pow2(k) == IF k = 0 THEN 1 ELSE 2 * Pow2(k - 1)

\* The digits of the natural number of vs divided by 2^k, remainder dropped,
\* for k <= 9: as many digits as vs has.  The remainder carried into a
\* position is that of the nine digits before it, 2^k dividing 10^9.
DivPow2(vs, k) ==
    [i \in 1..Len(vs) |->
        LET before == SubSeq(vs, IF i > 9 THEN i - 9 ELSE 1, i - 1)
        IN  (10 * (ToNat(before) % Pow2(k)) + vs[i]) \div Pow2(k)]

\* The digits of the fraction 0.vs divided by 2^k, for k <= 9.
FracDivPow2(vs, k) == DivPow2(vs \o [i \in 1..k |-> 0], k)

\* The fraction digits of 2^-j, for j >= 1 (j is at most 54 where it is used).
RECURSIVE HalfPow(_)
HalfPow(j) ==
    IF j = 1 THEN <<5>>
    ELSE IF j <= 10 THEN FracDivPow2(<<5>>, j - 1)
    ELSE FracDivPow2(HalfPow(j - 9), 9)

\* The numbers of a and b, sequences of digit values of one length: a <= b
DigitsLeq(a, b) ==
    \/ a = b
    \/ LET i == CHOOSE i \in 1..Len(a) : a[i] # b[i] /\ \A j \in 1..(i - 1) : a[j] = b[j]
       IN  a[i] < b[i]

\* 0.a <= 0.b for fractions given by their digits
FracLeq(a, b) ==
    LET n == IF Len(a) > Len(b) THEN Len(a) ELSE Len(b)
    IN  DigitsLeq(a \o [i \in 1..(n - Len(a)) |-> 0], b \o [i \in 1..(n - Len(b)) |-> 0])

\* The digits of 1 - 0.fp, for fp not empty and without trailing zeros.
OneMinus(fp) ==
    [i \in 1..Len(fp) |-> IF i = Len(fp) THEN 10 - fp[i] ELSE 9 - fp[i]]

RECURSIVE Pow10(_)
Pow10(n) == IF n = 0 THEN 1 ELSE 10 * Pow10(n - 1)

\* The digits of a numeral written in groups of nine digits.
DigitsOfGroups(gs) ==
    [i \in 1..(9 * Len(gs)) |-> (gs[((i - 1) \div 9) + 1] \div Pow10(8 - ((i - 1) % 9))) % 10]

\* The 309 digits of 2^1024 - 2^970, the middle between the greatest double
\* and 2^1024: the least number that float() makes inf.
LeastInfinite ==
    SubSeq(DigitsOfGroups(
     <<179, 769313486, 231580793, 728971405, 303415079, 934132710, 37826936, 173778980,
      444968292, 764750946, 649017977, 587207096, 330286416, 692887910, 946555547, 851940402,
      630657488, 671505820, 681908902, 708383, 676273854, 845817711, 531764475, 730270069,
      855571366, 959622842, 914819860, 834936475, 292719074, 168444365, 510704342, 711559699,
      508093042, 880177904, 174497792>>), 7, 315)

\* float() of the numeral gives inf.
IsInfinite(ip) ==
    \/ Len(ip) > 309
    \/ Len(ip) = 309 /\ DigitsLeq(LeastInfinite, ip)

\* The fraction digits of 2^-1075, the middle between zero and the least
\* double: the greatest number that float() makes 0.0.  It has 323 zeros
\* after the point.
HalfLeast ==
    [i \in 1..323 |-> 0] \o DigitsOfGroups(
     <<247032822, 920623272, 88284396, 434110686, 182529901, 307162382, 212792841, 250337753,
      635104375, 932649918, 180817996, 189898282, 347722858, 865463328, 355177969, 898199387,
      398005390, 939063150, 356595155, 702263922, 908583924, 491051844, 359318028, 499365361,
      525003193, 704576782, 492193656, 236698636, 584807570, 15857692, 699037063, 119282795,
      585513329, 278343384, 93519780, 155312465, 972635795, 746227664, 652728272, 200563740,
      64854999, 770965994, 704540208, 281662262, 378573934, 507363390, 79677619, 305775067,
      401763246, 736009689, 513405355, 374585166, 611342237, 666786041, 621596804, 619144672,
      918403005, 300575308, 490487653, 917113865, 916462395, 249126236, 538818796, 362393732,
      804238910, 186723484, 976682350, 898633885, 879256283, 27559956, 575244555, 72551893,
      136908362, 547791869, 486679949, 683240497, 58210285, 131854513, 962138377, 228261454,
      376934125, 320985913, 276672363, 281250000>>)

\* float() of the numeral gives 0.0.
IsZero(ip, fp) ==
    /\ ip = <<>>
    /\ \/ fp = <<>>
       \/ /\ Len(fp) > 323
          /\ \A i \in 1..323 : fp[i] = 0
          /\ FracLeq(fp, HalfLeast)

\* The values of a sequence of decimal digits.
DigitVals(ds) == SubSeq([i \in 1..Len(ds) |-> DigitVal(ds[i])], 1, Len(ds))

\* The absent number: what _clean_number returns for None.
NoNumber == [ok |-> FALSE, inf |-> FALSE, ip |-> <<>>, fp |-> <<>>]

\* The float inf.
Infinity == [ok |-> TRUE, inf |-> TRUE, ip |-> <<>>, fp |-> <<>>]

\* float(tok): a float is written as the decimal numeral that float() rounds
\* to it (the nearest double, ties to even), inf apart.  float() raises
\* ValueError on a token with two points or with no digit, which
\* _clean_number turns into None.  A value that is not > 0 is returned as
\* None.
CleanNumber(val) ==
    LET clean == ReplaceChar(RemoveChar(val, "."), ",", ".")
        tok   == FirstRun(clean)
    IN  IF tok = None THEN NoNumber
        ELSE LET points == Len(SelectSeq(tok, LAMBDA c : c = "."))
                 whole == SplitHead(tok, ".")
                 frac  == IF points = 0 THEN <<>> ELSE SplitRest(tok, ".")
                 ip    == TrimLeading(DigitVals(whole))
                 fp    == TrimTrailing(DigitVals(frac))
             IN  IF points > 1 \/ Len(tok) = points THEN NoNumber
                 ELSE IF IsInfinite(ip) THEN Infinity
                 ELSE IF IsZero(ip, fp) THEN NoNumber
                 ELSE [ok |-> TRUE, inf |-> FALSE, ip |-> ip, fp |-> fp]

\* floor(log2(n)) for n >= 1, and -1 for 0
RECURSIVE Log2(_)
Log2(n) == IF n = 0 THEN 0 - 1 ELSE 1 + Log2(n \div 2)

\* floor(log2(n)) of the whole part given by its digit values, of any length
RECURSIVE WholeLog2(_)
WholeLog2(ip) ==
    IF Len(ip) <= 9 THEN Log2(ToNat(ip)) ELSE 9 + WholeLog2(TrimLeading(DivPow2(ip, 9)))

\* The digits of the whole part divided by 2^k, remainder dropped, for any k
RECURSIVE ShiftRight(_, _)
ShiftRight(ip, k) ==
    IF k <= 9 THEN TrimLeading(DivPow2(ip, k))
    ELSE ShiftRight(TrimLeading(DivPow2(ip, 9)), k - 9)

\* Bit k of the whole part
Bit(ip, k) == LET q == ShiftRight(ip, k) IN q # <<>> /\ q[Len(q)] % 2 = 1

\* The whole part is a multiple of 2^k: 2^9 divides 10^9, so the remainder
\* by 2^j, j <= 9, is that of the last nine digits.
RECURSIVE LowZero(_, _)
LowZero(ip, k) ==
    LET last9 == SubSeq(ip, IF Len(ip) > 9 THEN Len(ip) - 8 ELSE 1, Len(ip))
    IN  IF k <= 9 THEN ToNat(last9) % Pow2(k) = 0
        ELSE ToNat(last9) % Pow2(9) = 0 /\ LowZero(TrimLeading(DivPow2(ip, 9)), k - 9)

\* A double has 53 significant bits: with e = floor(log2(whole part)), the
\* doubles around the numeral are 2^(e-52) apart.  For e <= 51 the whole
\* numbers are doubles of even significand, so the middle goes to them; for
\* e = 52 the doubles are the whole numbers and the middle .5 goes to the
\* even one; for e >= 53 the doubles are the multiples of 2^(e-52), and the
\* middle between two of them goes to the even multiple.
\*
\* The double of the numeral is a whole number above the numeral.  (For
\* e <= 49 the test on the first digit is implied by the last conjunct, the
\* distance to the middle being at most 2^-4.)
RoundsUp(x) ==
    LET e == WholeLog2(x.ip)
    IN  IF e >= 53
        THEN /\ Bit(x.ip, e - 53)
             /\ x.fp # <<>> \/ ~LowZero(x.ip, e - 53) \/ Bit(x.ip, e - 52)
        ELSE /\ x.fp # <<>>
             /\ e >= 50 \/ x.fp[1] = 9
             /\ IF e = 52
                THEN \/ ~FracLeq(x.fp, <<5>>)
                     \/ x.fp = <<5>> /\ x.ip[Len(x.ip)] % 2 = 1
                ELSE FracLeq(OneMinus(x.fp), HalfPow(53 - e))

\* The double of the numeral is a whole number below the numeral, and not
\* zero.
RoundsDown(x) ==
    LET e == WholeLog2(x.ip)
    IN  IF e >= 53
        THEN /\ ~RoundsUp(x)
             /\ x.fp # <<>> \/ ~LowZero(x.ip, e - 52)
        ELSE /\ x.fp # <<>>
             /\ x.ip # <<>>
             /\ e >= 50 \/ x.fp[1] = 0
             /\ IF e = 52
                THEN \/ x.fp[1] < 5
                     \/ x.fp = <<5>> /\ x.ip[Len(x.ip)] % 2 = 0
                ELSE FracLeq(x.fp, HalfPow(53 - e))

\* The float is a whole number.
IsWhole(x) == x.fp = <<>> \/ WholeLog2(x.ip) >= 52 \/ RoundsUp(x) \/ RoundsDown(x)

\* int(x) of a finite positive float: truncation of the double.  From 2^53
\* on the double is the multiple of 2^(e-52) below the numeral or the one
\* above it.  Python's int has no bound; the model's is that of the
\* checker's integers.
IntOf(x) ==
    LET e == WholeLog2(x.ip)
    IN  IF e <= 52 THEN (IF RoundsUp(x) THEN ToNat(x.ip) + 1 ELSE ToNat(x.ip))
        ELSE Pow2(e - 52)
                 * (ToNat(ShiftRight(x.ip, e - 52)) + (IF RoundsUp(x) THEN 1 ELSE 0))

\* ---------------------------------------------------- schemas.ItemLicitacao
\* clean_lote: None stays None, a blank string becomes None, else stripped.
clean_lote(v) == IF v = None THEN None ELSE IF Strip(v) = <<>> THEN None ELSE Strip(v)

NoItem == [ok |-> FALSE]

\* FieldsValid without the constraint on quantidade.
FieldsValidMut(item, objeto, quantidade) == item > 0 /\ Len(objeto) >= 3

\* FieldsValid with min_length = 2 for objeto.
FieldsValidShortMut(item, objeto, quantidade) ==
    item > 0 /\ Len(objeto) >= 2 /\ quantidade > 0

\* The Field constraints: item > 0, len(objeto) >= 3, quantidade > 0.
FieldsValid(item, objeto, quantidade) ==
    item > 0 /\ Len(objeto) >= 3 /\ quantidade > 0

\* ItemLicitacao(...): the validated item, or NoItem where pydantic raises
\* ValidationError (both callers catch it and emit nothing).
ItemLicitacao(item, objeto, quantidade, unidade, lote) ==
    IF FieldsValid(item, objeto, quantidade)
    THEN [ok |-> TRUE,
          v  |-> [lote |-> clean_lote(lote), item |-> item, objeto |-> objeto,
                  quantidade |-> quantidade, unidade_fornecimento |-> unidade]]
    ELSE NoItem

\* ------------------------------------------------------ core.config.HEADER_MAPPING
SynItem == <<<<"i", "t", "e", "m">>, <<"i", "t">>>>

SynQuantidade ==
    <<<<"q", "u", "a", "n", "t", "i", "d", "a", "d", "e">>, <<"q", "u", "a", "n", "t">>, <<"q", "t", "d">>, <<"q", "t", "d", "d">>, <<"q", "t", "d", "e">>, <<"q", "t", "e">>, <<"u", "n", "i", "d", "a", "d", "e", "s">>>>

SynObjeto ==
    <<<<"o", "b", "j", "e", "t", "o">>, <<"d", "e", "s", "c", "r", "i", "c", "a", "o">>, <<"e", "s", "p", "e", "c", "i", "f", "i", "c", "a", "c", "a", "o">>, <<"d", "i", "s", "c", "r", "i", "m", "i", "n", "a", "c", "a", "o">>, <<"s", "e", "r", "v", "i", "c", "o">>,
      <<"n", "a", "t", "u", "r", "e", "z", "a">>>>

SynUnidade == <<<<"u", "n", "i", "d", "a", "d", "e">>, <<"u", "n", "i", "d">>, <<"u", "n", "d">>, <<"u", "n", "d", "d">>, <<"u", ".", "m", ".">>, <<"e", "m", "b">>>>

SynLote == <<<<"l", "o", "t", "e">>, <<"g", "r", "u", "p", "o">>>>

\* ------------------------------------------ BaseExtractor._identify_columns
\* Columns are numbered from 1 here (Python numbers them from 0); 0 stands for
\* a field that is not in the mapping.
NoMapping ==
    [ok |-> FALSE, item |-> 0, quantidade |-> 0, objeto |-> 0,
     unidade_fornecimento |-> 0, lote |-> 0]

\* unidecode(str(c or "")).lower().strip()
CleanCell(c) == IF c = None THEN <<>> ELSE Strip(Lower(Unidecode(c)))

\* FirstMatch that takes the last column whose cell contains a synonym.
FirstMatchMut(clean_row, synonyms) ==
    LET hit(i) == \E k \in 1..Len(synonyms) : Contains(clean_row[i], synonyms[k])
    IN  IF \E i \in 1..Len(clean_row) : hit(i)
        THEN CHOOSE i \in 1..Len(clean_row) :
                 hit(i) /\ \A j \in (i + 1)..Len(clean_row) : ~hit(j)
        ELSE 0

\* The first column whose cell contains one of the synonyms.
FirstMatch(clean_row, synonyms) ==
    LET hit(i) == \E k \in 1..Len(synonyms) : Contains(clean_row[i], synonyms[k])
    IN  IF \E i \in 1..Len(clean_row) : hit(i)
        THEN CHOOSE i \in 1..Len(clean_row) : hit(i) /\ \A j \in 1..(i - 1) : ~hit(j)
        ELSE 0

IdentifyColumns(cells) ==
    LET clean_row == [i \in 1..Len(cells) |-> CleanCell(cells[i])]
        m == [ok |-> TRUE,
              item |-> FirstMatch(clean_row, SynItem),
              quantidade |-> FirstMatch(clean_row, SynQuantidade),
              objeto |-> FirstMatch(clean_row, SynObjeto),
              unidade_fornecimento |-> FirstMatch(clean_row, SynUnidade),
              lote |-> FirstMatch(clean_row, SynLote)]
    IN  IF m.objeto # 0 /\ m.quantidade # 0 THEN m ELSE NoMapping

\* ------------------------------------------------ BaseExtractor._parse_row
\* get_val(field), given the column the mapping has for the field
GetVal(cells, idx) ==
    IF idx # 0 /\ idx <= Len(cells)
    THEN IF cells[idx] = None \/ cells[idx] = <<>> THEN <<>>
         ELSE Strip(ReplaceChar(cells[idx], "\n", " "))
    ELSE <<>>

SentinelUnit == <<"U", "N">>

\* ResolveItem without the synchronisation of the counter.
ResolveItemMut(item_raw, st) ==
    IF item_raw.ok
    THEN [final_item |-> IntOf(item_raw), item_counter |-> st.item_counter]
    ELSE [final_item |-> st.item_counter, item_counter |-> st.item_counter + 1]

\* The item number of a row and the counter after it (lines 126-136).
ResolveItem(item_raw, st) ==
    IF item_raw.ok
    THEN [final_item |-> IntOf(item_raw), item_counter |-> IntOf(item_raw) + 1]
    ELSE [final_item |-> st.item_counter, item_counter |-> st.item_counter + 1]

\* ResolveLote that forgets to store the lot.
ResolveLoteMut(lote_raw, st) ==
    [final_lote |-> IF lote_raw # <<>> THEN lote_raw ELSE st.last_lote,
     last_lote  |-> st.last_lote]

\* The lot of a row and last_lote after it (lines 138-143).
ResolveLote(lote_raw, st) ==
    [final_lote |-> IF lote_raw # <<>> THEN lote_raw ELSE st.last_lote,
     last_lote  |-> IF lote_raw # <<>> THEN lote_raw ELSE st.last_lote]

\* _parse_row: [ok, v] is the returned item (ok = FALSE for None) and state
\* is the ExtractionState after the call.  int() of an infinite item number
\* raises at line 128, before the state is written.  The state is written
\* before the item is constructed, so int() of an infinite quantity (line
\* 147) and a ValidationError leave it changed.
ParseRow(cells, mapping, st) ==
    LET desc    == GetVal(cells, mapping.objeto)
        qtd_str == GetVal(cells, mapping.quantidade)
        qtd     == CleanNumber(qtd_str)
        item_raw == CleanNumber(GetVal(cells, mapping.item))
        ri      == ResolveItem(item_raw, st)
        rl      == ResolveLote(GetVal(cells, mapping.lote), st)
        unit    == GetVal(cells, mapping.unidade_fornecimento)
        made    == ItemLicitacao(ri.final_item, desc, IntOf(qtd),
                                 IF unit # <<>> THEN unit ELSE SentinelUnit,
                                 rl.final_lote)
    IN  IF desc = <<>> \/ qtd_str = <<>> \/ ~qtd.ok
        THEN [ok |-> FALSE, v |-> None, state |-> st]
        ELSE IF item_raw.inf
        THEN [ok |-> FALSE, v |-> None, state |-> st]
        ELSE IF qtd.inf
        THEN [ok |-> FALSE, v |-> None,
              state |-> [last_lote |-> rl.last_lote, item_counter |-> ri.item_counter]]
        ELSE [ok |-> made.ok,
              v |-> IF made.ok THEN made.v ELSE None,
              state |-> [last_lote |-> rl.last_lote, item_counter |-> ri.item_counter]]

\* No exception: the body of a try block returned.
NoException == "none"

\* What the body of _parse_row's try block (lines 93-151) raises: int()'s
\* OverflowError for an infinite item number (line 128) or quantity (line
\* 147), pydantic's ValidationError when the construction at line 145 fails,
\* nothing otherwise (get_val guards the index and the absent cell;
\* _clean_number catches its own faults).
RaisedInParseRow(cells, mapping, st) ==
    LET desc    == GetVal(cells, mapping.objeto)
        qtd_str == GetVal(cells, mapping.quantidade)
        qtd     == CleanNumber(qtd_str)
        item_raw == CleanNumber(GetVal(cells, mapping.item))
        ri      == ResolveItem(item_raw, st)
        rl      == ResolveLote(GetVal(cells, mapping.lote), st)
        unit    == GetVal(cells, mapping.unidade_fornecimento)
        made    == ItemLicitacao(ri.final_item, desc, IntOf(qtd),
                                 IF unit # <<>> THEN unit ELSE SentinelUnit,
                                 rl.final_lote)
    IN  IF desc = <<>> \/ qtd_str = <<>> \/ ~qtd.ok THEN NoException
        ELSE IF item_raw.inf \/ qtd.inf THEN "OverflowError"
        ELSE IF made.ok THEN NoException
        ELSE "ValidationError"

\* ParseRowEscapes with a handler for IndexError only.
ParseRowEscapesMut(exc) == exc \notin {NoException, "IndexError"}

\* except Exception (lines 153-155): whether exception exc of the body
\* reaches the caller of _parse_row.  Every exception is caught.
ParseRowEscapes(exc) == FALSE

\* ExtractionState at the start of an attachment's table pass
FreshState == [last_lote |-> None, item_counter |-> 1]

\* --------------------------------------------------------------- the inputs
\* File names of attachments.
FileNames == {<<"e", "d", "i", "t", "a", "l", ".", "p", "d", "f">>, <<"A", "n", "e", "x", "o", "-", "R", "e", "l", "a", "c", "a", "o", "I", "t", "e", "n", "s", ".", "p", "d", "f">>, <<"t", "e", "r", "m", "o", ".", "d", "o", "c", "x">>}

\* First rows of tables (what extract_tables / _table_to_list give).
HeaderRows ==
    {<<<<"I", "T", "E", "M">>, <<"Q", "T", "D", "E">>, <<"D", "E", "S", "C", "R", "I", "Ç", "Ã", "O">>, <<"U", "N", "I", "D">>, <<"L", "O", "T", "E">>>>,
     <<None, <<" ", "D", "e", "s", "c", "r", "i", "ç", "ã", "o", " ", "d", "o", " ", "O", "b", "j", "e", "t", "o">>, <<"Q", "u", "a", "n", "t", ".">>>>,
     <<<<"N", "o", "m", "e">>, <<"V", "a", "l", "o", "r">>>>}

\* A numeral above the largest double: float() gives inf for it.
Huge == [i \in 1..HugeLen |-> "9"]

\* Data rows.
DataRows ==
    {<<<<"1">>, <<"1", "0">>, <<"D", "e", "s", "k">>, <<"U", "N">>, <<"G", "1">>>>,
     <<<<>>, <<"5">>, <<"C", "h", "a", "i", "r">>, <<"U", "N">>, <<>>>>,
     <<<<>>, <<>>, <<>>, <<>>, <<"G", "2">>>>,
     <<<<"7">>, <<"2">>, <<"a", "b">>, <<>>, <<"G", "2">>>>,
     <<<<"3", ",", "5">>, <<"1", ".", "2", "3", "4", ",", "5", "6">>, <<"L", "a", "m", "p", "\n", "L", "E", "D">>, None, <<" ">>>>,
     <<<<"0", ",", "5">>, <<"3">>, <<"D", "e", "s", "k">>, <<"c", "x">>, <<>>>>,
     <<<<"2">>, <<"0", ",", "5">>, <<"S", "o", "f", "a">>>>,
     <<<<"x">>, <<"a", "b", "c">>, <<"D", "e", "s", "k">>, <<"U", "N">>, <<"G", "1">>>>,
     <<<<>>, Huge, <<"D", "e", "s", "k">>, <<"U", "N">>, <<"G", "3">>>>,
     <<Huge, <<"2">>, <<"D", "e", "s", "k">>, <<"U", "N">>, <<"G", "3">>>>}

\* Lines of page text, as full_text.split("\n") gives them (not yet stripped).
RawLines ==
    {<<>>,
     <<"1", " ", "-", " ", "G", "R", "U", "P", "O", " ", "Ú", "N", "I", "C", "O">>,
     <<"2", "-", "l", "o", "t", "e", " ", "D", "e", "s", "c", "r", "i", "ç", "ã", "o", ":", " ", "M", "e", "s", "a">>,
     <<"D", "e", "s", "c", "r", "i", "ç", "ã", "o", ":", " ", "C", "a", "d", "e", "i", "r", "a", " ", "e", "r", "g", "o", "n", "ô", "m", "i", "c", "a">>,
     <<"D", "e", "s", "c", "r", "i", "ç", "ã", "o", ":">>,
     <<"Q", "u", "a", "n", "t", "i", "d", "a", "d", "e", ":", " ", "2", "0">>,
     <<" ", "Q", "u", "a", "n", "t", "i", "d", "a", "d", "e", ":", " ", "0", ",", "5">>,
     <<"U", "n", "i", "d", "a", "d", "e", ":", " ", "C", "X">>,
     <<"L", "o", "c", "a", "l", " ", "d", "e", " ", "e", "n", "t", "r", "e", "g", "a", ":", " ", "A", "l", "m", "o", "x", "a", "r", "i", "f", "a", "d", "o">>,
     <<"L", "o", "c", "a", "l", " ", "d", "e", " ", "e", "n", "t", "r", "e", "g", "a", " ", "(", "Q", "u", "a", "n", "t", "i", "d", "a", "d", "e", ")", ":", " ", "5">>,
     <<"O", "b", "j", "e", "t", "o", ":", " ", "D", "e", "t", "a", "l", "h", "a", "d", "a", ":", " ", "a", "b">>,
     <<"M", "e", "s", "a", " ">>,
     <<"Q", "u", "a", "n", "t", "i", "d", "a", "d", "e", ":", " ">> \o Huge}

\* ------------------------------------------------ PDFExtractor (text fallback)
MIN_DESCRIPTION_LENGTH == 3

FormMarker == <<"-", "r", "e", "l", "a", "c", "a", "o", "i", "t", "e", "n", "s">>

\* The current-item dict: a key that is not in the dict holds None (objeto,
\* unidade_fornecimento) or NoQtd (quantidade).
NoQtd == 0 - 1

EmptyBuffer == [objeto |-> None, quantidade |-> NoQtd, unidade_fornecimento |-> None]

\* "objeto" in current_item and "quantidade" in current_item
Complete(buf) == buf.objeto # None /\ buf.quantidade # NoQtd

GroupKeywords == <<<<"g", "r", "u", "p", "o">>, <<"l", "o", "t", "e">>, <<"i", "t", "e", "n", "s", " ", "d", "a", " ", "l", "i", "c", "i", "t", "a", "ç", "ã", "o">>>>

\* is_header_pattern and is_group_keyword, for a stripped non-empty line
IsLotHeader(ln) ==
    /\ ln[1] \in IsDigitChars
    /\ Contains(ln, <<"-">>)
    /\ \E k \in 1..Len(GroupKeywords) : Contains(Lower(ln), GroupKeywords[k])

\* LotOfHeader that takes the part after the hyphen.
LotOfHeaderMut(ln) == Strip(SplitRest(ln, "-"))

\* line.split("-", 1)[0].strip()
LotOfHeader(ln) == Strip(SplitHead(ln, "-"))

\* ExtractValueAfterColon that never reads the line below.
ExtractValueAfterColonMut(ln, nxt) ==
    LET rest == SplitRest(ln, ":")
    IN  IF rest # None /\ Strip(rest) # <<>> THEN Strip(rest)
        ELSE <<>>

\* _extract_value_after_colon; nxt is all_lines[current_idx + 1], or EOF when
\* current_idx + 1 = len(all_lines)
ExtractValueAfterColon(ln, nxt) ==
    LET rest == SplitRest(ln, ":")
    IN  IF rest # None /\ Strip(rest) # <<>> THEN Strip(rest)
        ELSE IF nxt # EOF THEN Strip(nxt)
        ELSE <<>>

\* NextId that goes on counting after the items of the table pass.
NextIdMut(items_list) == Len(extracted_items) + Len(items_list) + 1

\* next_id in _save_buffer_item
NextId(items_list) == Len(items_list) + 1

\* _save_buffer_item: items_list after the call
SaveBufferItem(items_list, buf, lote) ==
    IF buf.quantidade = NoQtd THEN items_list
    ELSE LET desc == Strip(RemoveSub(IF buf.objeto = None THEN <<>> ELSE buf.objeto,
                                     <<"D", "e", "t", "a", "l", "h", "a", "d", "a", ":">>))
             made == ItemLicitacao(NextId(items_list), desc, buf.quantidade,
                                   IF buf.unidade_fornecimento = None THEN SentinelUnit
                                   ELSE buf.unidade_fornecimento,
                                   lote)
         IN  IF Len(desc) < MIN_DESCRIPTION_LENGTH THEN items_list
             ELSE IF made.ok THEN Append(items_list, made.v)
             ELSE items_list

\* _flush_item: the buffer and the list after the call
FlushItem(buf, items_list, lote) ==
    IF Complete(buf)
    THEN [buf |-> EmptyBuffer, items |-> SaveBufferItem(items_list, buf, lote)]
    ELSE [buf |-> buf, items |-> items_list]

\* _handle_description
HandleDescription(ln, nxt, buf, items_list, lote) ==
    LET saved == IF Complete(buf) THEN SaveBufferItem(items_list, buf, lote)
                 ELSE items_list
        kept  == IF Complete(buf) THEN EmptyBuffer ELSE buf
        desc  == ExtractValueAfterColon(ln, nxt)
    IN  [buf |-> IF desc # <<>> THEN [kept EXCEPT !.objeto = desc] ELSE kept,
         items |-> saved]

\* Whether _process_text_line raises on line ln: int() of an infinite
\* quantity (line 182) raises OverflowError, which nothing catches before
\* extract().
RaisedInTextLine(ln, nxt) ==
    LET ll == Lower(ln)
    IN  /\ ~(Contains(ll, <<"d", "e", "s", "c", "r", "i", "ç", "ã", "o">>) \/ Contains(ll, <<"o", "b", "j", "e", "t", "o", ":">>))
        /\ Contains(ll, <<"q", "u", "a", "n", "t", "i", "d", "a", "d", "e">>) /\ Contains(ln, <<":">>)
        /\ ~Contains(ll, <<"l", "o", "c", "a", "l", " ", "d", "e", " ", "e", "n", "t", "r", "e", "g", "a">>)
        /\ CleanNumber(ExtractValueAfterColon(ln, nxt)).inf

\* _process_text_line: the buffer and the list after a call that returns
ProcessTextLine(ln, nxt, buf, items_list, lote) ==
    LET ll == Lower(ln)
        same == [buf |-> buf, items |-> items_list]
    IN  IF Contains(ll, <<"d", "e", "s", "c", "r", "i", "ç", "ã", "o">>) \/ Contains(ll, <<"o", "b", "j", "e", "t", "o", ":">>)
        THEN HandleDescription(ln, nxt, buf, items_list, lote)
        ELSE IF Contains(ll, <<"q", "u", "a", "n", "t", "i", "d", "a", "d", "e">>) /\ Contains(ln, <<":">>)
        THEN IF ~Contains(ll, <<"l", "o", "c", "a", "l", " ", "d", "e", " ", "e", "n", "t", "r", "e", "g", "a">>)
             THEN LET qtd == CleanNumber(ExtractValueAfterColon(ln, nxt))
                  IN  IF qtd.ok
                      THEN [buf |-> [buf EXCEPT !.quantidade = IntOf(qtd)],
                            items |-> items_list]
                      ELSE same
             ELSE same
        ELSE IF Contains(ll, <<"u", "n", "i", "d", "a", "d", "e">>) /\ Contains(ln, <<":">>)
        THEN LET val == ExtractValueAfterColon(ln, nxt)
             IN  IF val # <<>>
                 THEN [buf |-> [buf EXCEPT !.unidade_fornecimento = val],
                       items |-> items_list]
                 ELSE same
        ELSE IF Contains(ll, <<"l", "o", "c", "a", "l", " ", "d", "e", " ", "e", "n", "t", "r", "e", "g", "a">>)
        THEN FlushItem(buf, items_list, lote)
        ELSE same

\* ScanStep that sets the lot of a lot-header before it flushes the buffer.
ScanStepMut(raw, nxt, buf, items_list, lote) ==
    LET ln == Strip(raw)
    IN  IF ln = <<>>
        THEN [buf |-> buf, items |-> items_list, lote |-> lote, raised |-> FALSE]
        ELSE IF IsLotHeader(ln)
        THEN LET f == FlushItem(buf, items_list, LotOfHeader(ln))
             IN  [buf |-> f.buf, items |-> f.items, lote |-> LotOfHeader(ln),
                  raised |-> FALSE]
        ELSE IF RaisedInTextLine(ln, nxt)
        THEN [buf |-> buf, items |-> items_list, lote |-> lote, raised |-> TRUE]
        ELSE LET p == ProcessTextLine(ln, nxt, buf, items_list, lote)
             IN  [buf |-> p.buf, items |-> p.items, lote |-> lote, raised |-> FALSE]

\* One iteration of the loop of _extract_text_items over raw line raw, with
\* nxt the raw line after it: the buffer, the list and the lot after it, or
\* as they stand when the iteration raised.
ScanStep(raw, nxt, buf, items_list, lote) ==
    LET ln == Strip(raw)
    IN  IF ln = <<>>
        THEN [buf |-> buf, items |-> items_list, lote |-> lote, raised |-> FALSE]
        ELSE IF IsLotHeader(ln)
        THEN LET f == FlushItem(buf, items_list, lote)
             IN  [buf |-> f.buf, items |-> f.items, lote |-> LotOfHeader(ln),
                  raised |-> FALSE]
        ELSE IF RaisedInTextLine(ln, nxt)
        THEN [buf |-> buf, items |-> items_list, lote |-> lote, raised |-> TRUE]
        ELSE LET p == ProcessTextLine(ln, nxt, buf, items_list, lote)
             IN  [buf |-> p.buf, items |-> p.items, lote |-> lote, raised |-> FALSE]

\* -------------------------------------------------- Orchestrator._get_extractor
\* Path.suffix.lower(): from the last point of the name on, or empty when the
\* name has no point, begins with its only point or ends with a point
Suffix(name) ==
    IF \E i \in 1..Len(name) : name[i] = "."
    THEN LET p == CHOOSE i \in 1..Len(name) :
                      name[i] = "." /\ \A j \in (i + 1)..Len(name) : name[j] # "."
         IN  IF 1 < p /\ p < Len(name) THEN Lower(SubSeq(name, p, Len(name)))
             ELSE <<>>
    ELSE <<>>

IsPdf(name) == Suffix(name) = <<".", "p", "d", "f">>

IsDocx(name) == Suffix(name) = <<".", "d", "o", "c", "x">>

\* RunsTextFallback without the file-name marker.
RunsTextFallbackMut(extracted, name) == extracted = <<>>

\* not extracted_items or "-relacaoitens" in file_path.name.lower()
RunsTextFallback(extracted, name) ==
    extracted = <<>> \/ Contains(Lower(name), FormMarker)

\* ------------------------------------------------------------ the state machine
\* The tables an attachment can hold, by their first row; <<>> is an empty table.
TableHeads == {<<>>} \cup {<<h>> : h \in HeaderRows}

\* The raw lines that can follow raw line cur when n lines were read: the
\* last element of full_text.split("\n") is always "", and no line follows it.
Following(cur, n) ==
    IF cur = <<>>
    THEN {EOF} \cup (IF n < MaxLines /\ n + nrows < MaxReads THEN RawLines ELSE {})
    ELSE IF n < MaxLines /\ n + nrows < MaxReads THEN RawLines ELSE {<<>>}

\* Nothing is being extracted from an attachment.
NoExtraction ==
    /\ pc = "start"
    /\ state = [last_lote |-> None, item_counter |-> 1]
    /\ header_map = NoMapping
    /\ row = None
    /\ items = <<>>
    /\ extracted_items = <<>>
    /\ current_item = EmptyBuffer
    /\ current_lote = None
    /\ text_items = <<>>
    /\ line = EOF
    /\ next_line = EOF
    /\ ntables = 0
    /\ nrows = 0
    /\ nlines = 0
    /\ fault = FALSE
    /\ lot_seen = None
    /\ head = None
    /\ counted = {}
    /\ form = <<>>
    /\ doc = <<>>

\* The Orchestrator has not started and no number is being normalized.
NoOrchestration ==
    /\ num_in = None
    /\ num_out = NoNumber
    /\ opc = "idle"
    /\ json_files = <<>>
    /\ disk = <<>>
    /\ handled = <<>>
    /\ results = <<>>
    /\ candidates = <<>>
    /\ files_with_priority = <<>>
    /\ attempted = <<>>
    /\ all_items = <<>>
    /\ processed_files = <<>>
    /\ final_items = <<>>

Init ==
    /\ NoOrchestration
    /\ fname \in FileNames
    /\ pc = "start"
    /\ state = FreshState
    /\ header_map = NoMapping
    /\ row = None
    /\ items = <<>>
    /\ extracted_items = <<>>
    /\ current_item = EmptyBuffer
    /\ current_lote = None
    /\ text_items = <<>>
    /\ line = EOF
    /\ next_line = EOF
    /\ ntables = 0
    /\ nrows = 0
    /\ nlines = 0
    /\ fault = FALSE
    /\ lot_seen = None
    /\ head = None
    /\ counted = {}
    /\ form = <<>>
    /\ doc = <<>>

\* OpenFile that creates no ExtractionState: the one in memory is used.
OpenFileMut ==
    /\ pc = "start"
    /\ IsPdf(fname) \/ IsDocx(fname)
    /\ pc' = "tables"
    /\ items' = <<>>
    /\ extracted_items' = <<>>
    /\ head' = None
    /\ counted' = {}
    /\ UNCHANGED <<fname, state, header_map, row, current_item, current_lote, text_items,
                   line, next_line, ntables, nrows, nlines, fault, lot_seen,
                   form, doc>>
    /\ UNCHANGED ovars

\* extract() opens the file: PDFExtractor._extract_from_tables and
\* DocxExtractor.extract create the ExtractionState once, before any table.
OpenFile ==
    /\ pc = "start"
    /\ IsPdf(fname) \/ IsDocx(fname)
    /\ pc' = "tables"
    /\ state' = FreshState
    /\ items' = <<>>
    /\ extracted_items' = <<>>
    /\ head' = None
    /\ counted' = {}
    /\ UNCHANGED <<fname, header_map, row, current_item, current_lote, text_items,
                   line, next_line, ntables, nrows, nlines, fault, lot_seen,
                   form, doc>>
    /\ UNCHANGED ovars

\* The loop over the tables takes table t, given by its first row, and
\* identifies its header; an empty table and a table whose first row is no
\* header are skipped.
ReadTableOf(t) ==
    /\ pc = "tables"
    /\ head' = IF t = <<>> THEN None ELSE t[1]
    /\ header_map' = IF t = <<>> THEN NoMapping ELSE IdentifyColumns(t[1])
    /\ pc' = IF header_map'.ok THEN "rows" ELSE "tables"
    /\ ntables' = ntables + 1
    /\ UNCHANGED <<fname, state, row, items, extracted_items, current_item,
                   current_lote, text_items, line, next_line, nrows, nlines,
                   fault, lot_seen, counted, form, doc>>
    /\ UNCHANGED ovars

\* ReadTable with the ExtractionState created per table.
ReadTableMut ==
    /\ pc = "tables"
    /\ ntables < MaxTables
    /\ \E t \in TableHeads :
          /\ head' = IF t = <<>> THEN None ELSE t[1]
          /\ header_map' = IF t = <<>> THEN NoMapping ELSE IdentifyColumns(t[1])
          /\ pc' = IF header_map'.ok THEN "rows" ELSE "tables"
    /\ ntables' = ntables + 1
    /\ state' = FreshState
    /\ UNCHANGED <<fname, row, items, extracted_items, current_item,
                   current_lote, text_items, line, next_line, nrows, nlines,
                   fault, lot_seen, counted, form, doc>>
    /\ UNCHANGED ovars

\* ReadTable that scans the rows of every table that has a first row.
ReadTableScanMut ==
    /\ pc = "tables"
    /\ ntables < MaxTables
    /\ \E t \in TableHeads :
          /\ head' = IF t = <<>> THEN None ELSE t[1]
          /\ header_map' = IF t = <<>> THEN NoMapping ELSE IdentifyColumns(t[1])
          /\ pc' = IF t # <<>> THEN "rows" ELSE "tables"
    /\ ntables' = ntables + 1
    /\ UNCHANGED <<fname, state, row, items, extracted_items, current_item,
                   current_lote, text_items, line, next_line, nrows, nlines,
                   fault, lot_seen, counted, form, doc>>
    /\ UNCHANGED ovars

\* The loop over the tables takes the next table, any of TableHeads.
ReadTable ==
    /\ ntables < MaxTables
    /\ \E t \in TableHeads : ReadTableOf(t)

\* The loop over table[1:] gives row r to _parse_row.
ParseRowOf(r) ==
    /\ pc = "rows"
    /\ LET res == ParseRow(r, header_map, state)
       IN  /\ row' = r
           /\ state' = res.state
           /\ items' = IF res.ok THEN Append(items, res.v) ELSE items
           /\ lot_seen' = IF GetVal(r, header_map.lote) # <<>>
                          THEN GetVal(r, header_map.lote) ELSE lot_seen
           /\ counted' = IF res.ok /\ ~CleanNumber(GetVal(r, header_map.item)).ok
                         THEN counted \cup {res.v.item} ELSE counted
    /\ nrows' = nrows + 1
    /\ UNCHANGED <<fname, pc, header_map, extracted_items, current_item,
                   current_lote, text_items, line, next_line, ntables, nlines,
                   fault, form, doc, head>>
    /\ UNCHANGED ovars

\* The loop over table[1:] gives the next row, any of DataRows, to _parse_row.
ParseRowStep ==
    /\ nrows < MaxRows
    /\ nrows < MaxReads
    /\ \E r \in DataRows : ParseRowOf(r)

\* The rows of the table are exhausted.  DOCX: _process_table_data returns
\* its list and extract() extends extracted_items with it.
EndTable ==
    /\ pc = "rows"
    /\ pc' = "tables"
    /\ header_map' = NoMapping
    /\ IF IsDocx(fname)
       THEN extracted_items' = extracted_items \o items /\ items' = <<>>
       ELSE UNCHANGED <<extracted_items, items>>
    /\ UNCHANGED <<fname, state, row, current_item, current_lote, text_items,
                   line, next_line, ntables, nrows, nlines, fault, lot_seen, head, counted,
                   form, doc>>
    /\ UNCHANGED ovars

\* The tables are exhausted.  PDF: _extract_from_tables returns table_items,
\* extract() extends extracted_items with them and decides on the text
\* fallback; without the fallback the with block ends, and when closing the
\* file raises (close_raises) extract() logs it and returns the same list.
\* DOCX: extract() returns.
EndTablesWith(close_raises) ==
    /\ pc = "tables"
    /\ extracted_items' = IF IsPdf(fname) THEN extracted_items \o items
                          ELSE extracted_items
    /\ pc' = IF IsPdf(fname) /\ RunsTextFallback(extracted_items', fname)
             THEN "text" ELSE "done"
    /\ fault' = (fault \/ (IsPdf(fname) /\ pc' = "done" /\ close_raises))
    /\ row' = None
    /\ lot_seen' = None
    /\ head' = None
    /\ counted' = {}
    /\ ntables' = 0
    /\ UNCHANGED <<fname, state, header_map, items, current_item, current_lote,
                   text_items, line, next_line, nrows, nlines, form, doc>>
    /\ UNCHANGED ovars

EndTables == \E close_raises \in BOOLEAN : EndTablesWith(close_raises)

\* _extract_text_items starts: the text of all pages is read and split; the
\* scan stands at the first line with an empty buffer and no lot.
BeginScan(l1, l2) ==
    /\ pc = "text"
    /\ pc' = "scan"
    /\ line' = l1
    /\ next_line' = l2
    /\ nlines' = IF l2 = EOF THEN 1 ELSE 2
    /\ current_item' = EmptyBuffer
    /\ current_lote' = None
    /\ text_items' = <<>>
    /\ UNCHANGED <<fname, state, header_map, row, items, extracted_items,
                   ntables, nrows, fault, lot_seen, head, counted>>

ReadText ==
    /\ pc = "text"
    /\ \E l1 \in RawLines : \E l2 \in Following(l1, 1) : BeginScan(l1, l2)
    /\ UNCHANGED <<form, doc>>
    /\ UNCHANGED ovars

\* One iteration of the scan loop, s being what it makes of the line; nn is
\* the line that comes into view.
\* When the iteration raises, the exception leaves _extract_text_items and
\* the with block: extract() catches it, logs it and returns extracted_items
\* without the text items.
Scanned(nn, s) ==
    /\ pc = "scan"
    /\ line # EOF
    /\ current_item' = s.buf
    /\ text_items' = s.items
    /\ current_lote' = s.lote
    /\ pc' = IF s.raised THEN "done" ELSE pc
    /\ fault' = (s.raised \/ fault)
    /\ line' = IF s.raised THEN line ELSE next_line
    /\ next_line' = IF s.raised THEN next_line ELSE nn
    /\ nlines' = IF s.raised \/ nn = EOF THEN nlines ELSE nlines + 1
    /\ UNCHANGED <<fname, state, header_map, row, items, extracted_items,
                   ntables, nrows, lot_seen, head, counted>>

Scan(nn) ==
    Scanned(nn, ScanStep(line, next_line, current_item, text_items, current_lote))

ScanLine ==
    /\ pc = "scan"
    /\ LET s == ScanStep(line, next_line, current_item, text_items, current_lote)
       IN  \E nn \in (IF next_line = EOF THEN {EOF} ELSE Following(next_line, nlines)) :
              Scanned(nn, s)
    /\ UNCHANGED <<form, doc>>
    /\ UNCHANGED ovars

\* The final flush of _extract_text_items, its return, extract() extending
\* extracted_items with the text items, and the end of the with block: when
\* closing the file raises (close_raises) extract() logs it and returns the
\* same list.
FinalFlushWith(close_raises) ==
    /\ pc = "scan"
    /\ line = EOF
    /\ LET f == FlushItem(current_item, text_items, current_lote)
       IN  /\ current_item' = f.buf
           /\ text_items' = f.items
           /\ extracted_items' = extracted_items \o f.items
    /\ pc' = "done"
    /\ fault' = (fault \/ close_raises)
    /\ UNCHANGED <<fname, state, header_map, row, items, current_lote, line,
                   next_line, ntables, nrows, nlines, lot_seen, head, counted, form, doc>>
    /\ UNCHANGED ovars

FinalFlush == \E close_raises \in BOOLEAN : FinalFlushWith(close_raises)

\* The library raises while the file is opened or a page or table is read;
\* extract() catches it, logs it and returns extracted_items as it stands
\* (the empty list it created at its first line when the file did not open).
\* The fault at the end of the with block is close_raises of EndTables and
\* FinalFlush; the one inside the scan is the raised case of Scan.
Fault ==
    /\ pc \in {"start", "tables", "text"}
    /\ fault' = TRUE
    /\ pc' = "done"
    /\ extracted_items' = IF pc = "start" THEN <<>> ELSE extracted_items
    /\ UNCHANGED <<fname, state, header_map, row, items,
                   current_item, current_lote, text_items, line, next_line,
                   ntables, nrows, nlines, lot_seen, head, counted, form, doc>>
    /\ UNCHANGED ovars

Next ==
    \/ OpenFile
    \/ ReadTable
    \/ ParseRowStep
    \/ EndTable
    \/ EndTables
    \/ ReadText
    \/ ScanLine
    \/ FinalFlush
    \/ Fault

Spec == Init /\ [][Next]_vars

TypeOK ==
    /\ pc \in {"start", "tables", "rows", "text", "scan", "done"}
    /\ state.item_counter \in Nat
    /\ nrows <= MaxRows /\ ntables <= MaxTables


\* --------------------------------------------------- form-layout text
\* A form block: an optional lot-header line, then a description line, a
\* quantity line, a unit line and a delivery-location line, each with its
\* value on the same line.  Every choice carries the text put on the line and
\* what an item made from it should hold.
FormHeaders ==
    {[txt |-> None, lot |-> None],
     [txt |-> <<"1", " ", "-", " ", "G", "R", "U", "P", "O", " ", "Ú", "N", "I", "C", "O">>, lot |-> <<"1">>],
     [txt |-> <<"2", " ", "-", " ", "L", "O", "T", "E", " ", "B">>, lot |-> <<"2">>]}

FormDescs ==
    {[txt |-> <<"C", "a", "d", "e", "i", "r", "a", " ", "e", "r", "g", "o", "n", "ô", "m", "i", "c", "a">>, objeto |-> <<"C", "a", "d", "e", "i", "r", "a", " ", "e", "r", "g", "o", "n", "ô", "m", "i", "c", "a">>, valid |-> TRUE],
     [txt |-> <<"D", "e", "t", "a", "l", "h", "a", "d", "a", ":", " ", "M", "e", "s", "a">>, objeto |-> <<"M", "e", "s", "a">>, valid |-> TRUE],
     [txt |-> <<"a", "b">>, objeto |-> <<"a", "b">>, valid |-> FALSE]}

\* The quantity, the unit and the delivery location of a block.  The
\* delivery-location line of the third holds "unidade", that of the fourth
\* "quantidade" and "unidade".
FormQtys ==
    {[txt |-> <<"2", "0">>, unit |-> <<"U", "N">>, place |-> <<"A", "l", "m", "o", "x", "a", "r", "i", "f", "a", "d", "o">>,
      label |-> <<"L", "o", "c", "a", "l", " ", "d", "e", " ", "e", "n", "t", "r", "e", "g", "a">>, quantidade |-> 20, valid |-> TRUE, inf |-> FALSE],
     [txt |-> <<"1", ".", "2", "3", "4", ",", "5", "6">>, unit |-> <<"C", "X">>, place |-> <<"A", "l", "m", "o", "x", "a", "r", "i", "f", "a", "d", "o">>,
      label |-> <<"L", "o", "c", "a", "l", " ", "d", "e", " ", "e", "n", "t", "r", "e", "g", "a">>, quantidade |-> 1234, valid |-> TRUE, inf |-> FALSE],
     [txt |-> <<"7">>, unit |-> <<"K", "G">>, place |-> <<"U", "n", "i", "d", "a", "d", "e", " ", "B", "a", "s", "i", "c", "a", " ", "d", "e", " ", "S", "a", "u", "d", "e">>,
      label |-> <<"L", "o", "c", "a", "l", " ", "d", "e", " ", "e", "n", "t", "r", "e", "g", "a">>, quantidade |-> 7, valid |-> TRUE, inf |-> FALSE],
     [txt |-> <<"3">>, unit |-> <<"P", "C", "T">>, place |-> <<"U", "n", "i", "d", "a", "d", "e", " ", "C", "e", "n", "t", "r", "a", "l">>,
      label |-> <<"L", "o", "c", "a", "l", " ", "d", "e", " ", "E", "n", "t", "r", "e", "g", "a", " ", "(", "Q", "u", "a", "n", "t", "i", "d", "a", "d", "e", ")">>, quantidade |-> 3, valid |-> TRUE,
      inf |-> FALSE],
     [txt |-> <<"0", ",", "5">>, unit |-> <<"C", "X">>, place |-> <<"A", "l", "m", "o", "x", "a", "r", "i", "f", "a", "d", "o">>,
      label |-> <<"L", "o", "c", "a", "l", " ", "d", "e", " ", "e", "n", "t", "r", "e", "g", "a">>, quantidade |-> 0, valid |-> FALSE, inf |-> FALSE],
     [txt |-> Huge, unit |-> <<"U", "N">>, place |-> <<"A", "l", "m", "o", "x", "a", "r", "i", "f", "a", "d", "o">>,
      label |-> <<"L", "o", "c", "a", "l", " ", "d", "e", " ", "e", "n", "t", "r", "e", "g", "a">>, quantidade |-> 0, valid |-> FALSE, inf |-> TRUE]}

FormBlocks == [hdr : FormHeaders, desc : FormDescs, qtd : FormQtys]

FormTexts == UNION {[1..n -> FormBlocks] : n \in 1..MaxBlocks}

\* The delivery-location line of a block.
PlaceLine(b) == b.qtd.label \o <<":", " ">> \o b.qtd.place

BlockLines(b) ==
    (IF b.hdr.txt = None THEN <<>> ELSE <<b.hdr.txt>>)
    \o <<<<"D", "e", "s", "c", "r", "i", "ç", "ã", "o", ":", " ">> \o b.desc.txt,
         <<"Q", "u", "a", "n", "t", "i", "d", "a", "d", "e", ":", " ">> \o b.qtd.txt,
         <<"U", "n", "i", "d", "a", "d", "e", ":", " ">> \o b.qtd.unit,
         PlaceLine(b)>>

\* The lines of the text of a form: split("\n") of the blocks' lines, each
\* ended by a newline.
RECURSIVE FormLines(_)
FormLines(f) == IF f = <<>> THEN <<<<>>>> ELSE BlockLines(Head(f)) \o FormLines(Tail(f))

ReadFormText ==
    /\ \E f \in FormTexts :
          /\ form' = f
          /\ BeginScan(FormLines(f)[1], FormLines(f)[2])
          /\ doc' = SubSeq(FormLines(f), 3, Len(FormLines(f)))
    /\ UNCHANGED ovars

ScanFormLine ==
    /\ Scan(IF doc = <<>> THEN EOF ELSE Head(doc))
    /\ doc' = IF doc = <<>> THEN <<>> ELSE Tail(doc)
    /\ UNCHANGED form
    /\ UNCHANGED ovars

NextForm ==
    \/ OpenFile
    \/ EndTables
    \/ ReadFormText
    \/ ScanFormLine
    \/ FinalFlush

\* An attachment without tables whose text is a form.
SpecForm == Init /\ [][NextForm]_vars

\* ------------------------------------------------------------ Orchestrator
FILE_PRIORITY_BREAK == 100

\* CalculateFilePriority that tests "edital" before "termo".
CalculateFilePriorityMut(name) ==
    LET n == Unidecode(Lower(name))
    IN  IF Contains(n, <<"-", "r", "e", "l", "a", "c", "a", "o", "i", "t", "e", "n", "s">>) THEN 100
        ELSE IF Contains(n, <<"e", "d", "i", "t", "a", "l">>) THEN 50
        ELSE IF Contains(n, <<"t", "e", "r", "m", "o">>) THEN 75
        ELSE 0

\* _calculate_file_priority
CalculateFilePriority(name) ==
    LET n == Unidecode(Lower(name))
    IN  IF Contains(n, <<"-", "r", "e", "l", "a", "c", "a", "o", "i", "t", "e", "n", "s">>) THEN 100
        ELSE IF Contains(n, <<"t", "e", "r", "m", "o">>) THEN 75
        ELSE IF Contains(n, <<"e", "d", "i", "t", "a", "l">>) THEN 50
        ELSE 0

\* f.is_file() and f.suffix.lower() in self.extractors, for an entry f of the
\* attachments folder
Supported(f) == f.is_file /\ (IsPdf(f.name) \/ IsDocx(f.name))

\* list.sort(key=score, reverse=True) is stable: a pair goes after every pair
\* of greater or equal score that came before it.
RECURSIVE InsertByScore(_, _)
InsertByScore(sorted, p) ==
    IF sorted = <<>> THEN <<p>>
    ELSE IF Head(sorted).score >= p.score
         THEN <<Head(sorted)>> \o InsertByScore(Tail(sorted), p)
         ELSE <<p>> \o sorted

RECURSIVE SortByScore(_)
SortByScore(s) ==
    IF s = <<>> THEN <<>>
    ELSE InsertByScore(SortByScore(SubSeq(s, 1, Len(s) - 1)), s[Len(s)])

\* Lines 86-94: the (score, file) pairs of the supported entries, sorted.
Prioritize(names) ==
    SortByScore([i \in 1..Len(names) |->
                    [score |-> CalculateFilePriority(names[i]), name |-> names[i]]])

\* StopsAfter that holds at every priority.
StopsAfterMut(priority) == priority >= 0

\* priority >= self.FILE_PRIORITY_BREAK: the loop over the attachments leaves
\* after an attachment of this priority that yielded items.
StopsAfter(priority) == priority >= FILE_PRIORITY_BREAK

\* ------------------------------------------- Orchestrator._deduplicate_items
\* (item.item, item.objeto[:30].lower())
DedupKey(it) ==
    <<it.item, Lower(SubSeq(it.objeto, 1, IF Len(it.objeto) < 30 THEN Len(it.objeto) ELSE 30))>>

\* Truth value of a lot: None and "" are false.
HasLote(it) == it.lote # None /\ it.lote # <<>>

\* Where key k is in the map, 0 when it is not.
KeyIndex(map, k) ==
    IF \E i \in 1..Len(map) : DedupKey(map[i]) = k
    THEN CHOOSE i \in 1..Len(map) : DedupKey(map[i]) = k
    ELSE 0

\* UniqueMap that puts a new key in front of the keys it has.
RECURSIVE UniqueMapMut(_, _)
UniqueMapMut(its, map) ==
    IF its = <<>> THEN map
    ELSE LET it == Head(its)
             k  == KeyIndex(map, DedupKey(it))
         IN  UniqueMapMut(Tail(its),
                 IF k = 0 THEN <<it>> \o map
                 ELSE IF HasLote(it) /\ ~HasLote(map[k]) THEN [map EXCEPT ![k] = it]
                 ELSE map)

\* unique_map after the loop, as its values in the insertion order of the keys
\* (a dict keeps a key's place when its value is replaced).
RECURSIVE UniqueMap(_, _)
UniqueMap(its, map) ==
    IF its = <<>> THEN map
    ELSE LET it == Head(its)
             k  == KeyIndex(map, DedupKey(it))
         IN  UniqueMap(Tail(its),
                 IF k = 0 THEN Append(map, it)
                 ELSE IF HasLote(it) /\ ~HasLote(map[k]) THEN [map EXCEPT ![k] = it]
                 ELSE map)

\* InsertByItem that puts an item before those of the same number.
InsertByItemMut(sorted, it) ==
    LET lower == SelectSeq(sorted, LAMBDA x : x.item < it.item)
        rest  == SelectSeq(sorted, LAMBDA x : x.item >= it.item)
    IN  lower \o <<it>> \o rest

\* sorted(..., key=lambda x: x.item) is stable: an item goes after every item
\* of smaller or equal number that came before it.
InsertByItem(sorted, it) ==
    LET upto == SelectSeq(sorted, LAMBDA x : x.item <= it.item)
        rest == SelectSeq(sorted, LAMBDA x : x.item > it.item)
    IN  upto \o <<it>> \o rest

RECURSIVE SortByItem(_)
SortByItem(s) ==
    IF s = <<>> THEN <<>>
    ELSE InsertByItem(SortByItem(SubSeq(s, 1, Len(s) - 1)), s[Len(s)])

\* DeduplicateItems that lets any later occurrence with a lot replace the kept one.
DeduplicateItemsMut(its) ==
    LET RECURSIVE Last_(_, _)
        Last_(rest, map) ==
            IF rest = <<>> THEN map
            ELSE LET it == Head(rest)
                     k  == KeyIndex(map, DedupKey(it))
                 IN  Last_(Tail(rest),
                         IF k = 0 THEN Append(map, it)
                         ELSE IF HasLote(it) THEN [map EXCEPT ![k] = it]
                         ELSE map)
    IN  SortByItem(Last_(its, <<>>))

\* _deduplicate_items
DeduplicateItems(its) == SortByItem(UniqueMap(its, <<>>))

\* ------------------------------------------------------- schemas.Licitacao
UpperLetters ==
    {"A", "B", "C", "D", "E", "F", "G", "H", "I", "J", "K", "L", "M", "N", "O",
     "P", "Q", "R", "S", "T", "U", "V", "W", "X", "Y", "Z"}

\* EstadoValid that accepts every string.
EstadoValidMut(e) == TRUE

\* pattern=r"^[A-Z]{2}$"
EstadoValid(e) == Len(e) = 2 /\ e[1] \in UpperLetters /\ e[2] \in UpperLetters

\* A key that is not in the metadata.
Absent == <<"Absent">>

\* str(meta.get(field, "")): "" for a key that is not in the metadata, "None"
\* for a key that holds null.
MetaGet(meta, field) ==
    IF meta[field] = Absent THEN <<>>
    ELSE IF meta[field] = None THEN <<"N", "o", "n", "e">>
    ELSE meta[field]

\* The characters str_strip_whitespace removes: those of the Unicode
\* property White_Space (str.strip() removes U+001C..U+001F as well).
WhiteSpace == Whitespace \ {"U+001C", "U+001D", "U+001E", "U+001F"}

RECURSIVE LTrim(_)
LTrim(s) == IF s # <<>> /\ Head(s) \in WhiteSpace THEN LTrim(Tail(s)) ELSE s

RECURSIVE RTrim(_)
RTrim(s) ==
    IF s # <<>> /\ s[Len(s)] \in WhiteSpace
    THEN RTrim(SubSeq(s, 1, Len(s) - 1)) ELSE s

\* model_config str_strip_whitespace: what pydantic makes of a str value
\* before it applies the constraints of the field.
StrStripWhitespace(s) == RTrim(LTrim(s))

\* Licitacao(...): the record, or ok = FALSE where pydantic raises
\* ValidationError.  Every str value is stripped, the elements of
\* anexos_processados too; the items are ItemLicitacao instances and are
\* taken as they are.
Licitacao(arquivo_json, meta, anexos, itens) ==
    LET estado == StrStripWhitespace(MetaGet(meta, "estado"))
    IN  IF EstadoValid(estado)
        THEN [ok |-> TRUE,
              v  |-> [arquivo_json |-> StrStripWhitespace(arquivo_json),
                      numero_pregao |-> StrStripWhitespace(MetaGet(meta, "numero_pregao")),
                      orgao |-> StrStripWhitespace(MetaGet(meta, "orgao")),
                      cidade |-> StrStripWhitespace(MetaGet(meta, "cidade")),
                      estado |-> estado,
                      anexos_processados |->
                          [i \in 1..Len(anexos) |-> StrStripWhitespace(anexos[i])],
                      itens_extraidos |-> itens]]
        ELSE [ok |-> FALSE]

\* ------------------------------------------------- the Orchestrator's inputs
\* Documents of one directory.
MaxDocs == 2

\* The names input_dir.glob("*.json") gives, in its order.
JsonNames == <<<<"a", ".", "j", "s", "o", "n">>, <<"b", ".", "j", "s", "o", "n">>, <<"c", ".", "j", "s", "o", "n">>, <<"d", ".", "j", "s", "o", "n">>>>

\* "data": null in the JSON file: data.get("data", {}) is None.
NullData == [null |-> TRUE]

\* The "data" objects of the JSON files: complete, without "estado", with an
\* "estado" in lower case, with absent keys, a null and white space around
\* the values, and null ("data": null) in place of the object.
Metas ==
    {[numero_pregao |-> <<"1", "2", "/", "2", "0", "2", "4">>, orgao |-> <<"P", "r", "e", "f", "e", "i", "t", "u", "r", "a">>, cidade |-> <<"U", "b", "e", "r", "a", "b", "a">>,
      estado |-> <<"M", "G">>],
     [numero_pregao |-> <<"1", "2", "/", "2", "0", "2", "4">>, orgao |-> <<"P", "r", "e", "f", "e", "i", "t", "u", "r", "a">>, cidade |-> <<"U", "b", "e", "r", "a", "b", "a">>,
      estado |-> Absent],
     [numero_pregao |-> <<"7">>, orgao |-> <<>>, cidade |-> Absent, estado |-> <<"m", "g">>],
     [numero_pregao |-> Absent, orgao |-> None, cidade |-> <<" ", "G", "o", "i", "â", "n", "i", "a">>,
      estado |-> <<" ", "S", "P", "\n">>],
     NullData}

\* An entry of the attachments folder that is a regular file.
File(name) == [name |-> name, is_file |-> TRUE]

\* An entry of the attachments folder that is a directory.
Folder(name) == [name |-> name, is_file |-> FALSE]

\* What attachments_dir.iterdir() gives (<<>> also stands for a document
\* without attachments folder).
AttachmentDirs ==
    {<<>>,
     <<File(<<"e", "d", "i", "t", "a", "l", ".", "p", "d", "f">>), File(<<"t", "e", "r", "m", "o", "-", "r", "e", "f", "e", "r", "e", "n", "c", "i", "a", ".", "p", "d", "f">>),
       File(<<"a", "n", "e", "x", "o", "-", "r", "e", "l", "a", "c", "a", "o", "i", "t", "e", "n", "s", ".", "p", "d", "f">>)>>,
     <<File(<<"e", "d", "i", "t", "a", "l", ".", "p", "d", "f">>), File(<<"l", "e", "i", "a", "-", "m", "e", ".", "t", "x", "t">>), File(<<" ", "T", "e", "r", "m", "o", ".", "d", "o", "c", "x">>),
       File(<<".", "p", "d", "f">>)>>,
     <<Folder(<<"a", "n", "e", "x", "o", "-", "r", "e", "l", "a", "c", "a", "o", "i", "t", "e", "n", "s", ".", "p", "d", "f">>), File(<<"A", "n", "e", "x", "o", "-", "R", "e", "l", "a", "c", "a", "o", "I", "t", "e", "n", "s", ".", "p", "d", "f">>),
       File(<<"e", "d", "i", "t", "a", "l", ".", "p", "d", "f", ".">>)>>}

\* Items an attachment can yield.
ItemA == [lote |-> None, item |-> 1, objeto |-> <<"D", "e", "s", "k">>, quantidade |-> 10,
          unidade_fornecimento |-> <<"U", "N">>]

ItemB == [lote |-> <<"G", "1">>, item |-> 1, objeto |-> <<"d", "e", "s", "k">>, quantidade |-> 10,
          unidade_fornecimento |-> <<"U", "N">>]

ItemC == [lote |-> None, item |-> 1, objeto |-> <<"C", "h", "a", "i", "r">>, quantidade |-> 5,
          unidade_fornecimento |-> <<"U", "N">>]

\* What extractor.extract(file_path) can return.  It catches its own faults
\* and returns what it had collected (pdf.py 53-55, docx.py 54-57), so every
\* one of these lists can also be the result of an extraction that faulted.
Extractions == {<<>>, <<ItemA>>, <<ItemC, ItemB>>}

\* ------------------------------------------------ the Orchestrator's steps
\* The metadata of a JSON file that json.load cannot read.
NoMeta == [numero_pregao |-> Absent, orgao |-> Absent, cidade |-> Absent,
           estado |-> Absent]

\* MalformedDocument with no handler around the document: the run ends.
MalformedDocumentMut ==
    /\ opc = "idle"
    /\ Len(handled) < Len(json_files)
    /\ handled' = Append(handled,
                         [name |-> json_files[Len(handled) + 1], readable |-> FALSE,
                          meta |-> NoMeta, faulted |-> TRUE])
    /\ opc' = "end"
    /\ UNCHANGED <<num_in, num_out, json_files, disk, results, candidates,
                   files_with_priority, attempted, all_items, processed_files,
                   final_items>>
    /\ UNCHANGED evars

\* process_directory takes the next JSON file and json.load raises: the fault
\* is caught at line 53 and the document has no record.
MalformedDocument ==
    /\ opc = "idle"
    /\ Len(handled) < Len(json_files)
    /\ handled' = Append(handled,
                         [name |-> json_files[Len(handled) + 1], readable |-> FALSE,
                          meta |-> NoMeta, faulted |-> TRUE])
    /\ UNCHANGED <<num_in, num_out, opc, json_files, disk, results, candidates,
                   files_with_priority, attempted, all_items, processed_files,
                   final_items>>
    /\ UNCHANGED evars

\* process_directory takes the next JSON file; _process_single_licitacao
\* reads the metadata, lists the supported attachments and sorts them.
BeginDocument ==
    /\ opc = "idle"
    /\ Len(handled) < Len(json_files)
    /\ \E meta \in Metas : \E entries \in AttachmentDirs :
          /\ handled' = Append(handled,
                               [name |-> json_files[Len(handled) + 1], readable |-> TRUE,
                                meta |-> meta, faulted |-> FALSE])
          /\ candidates' = LET kept == SelectSeq(entries, Supported)
                           IN  [i \in 1..Len(kept) |-> kept[i].name]
          /\ files_with_priority' = Prioritize(candidates')
          /\ opc' = IF candidates' = <<>> THEN "collected" ELSE "files"
    /\ attempted' = <<>>
    /\ all_items' = <<>>
    /\ processed_files' = <<>>
    /\ final_items' = <<>>
    /\ UNCHANGED <<num_in, num_out, json_files, disk, results>>
    /\ UNCHANGED evars

\* One iteration of the loop over files_with_priority, in which extract()
\* returned got; flt tells whether the library faulted inside extract(),
\* which the Orchestrator does not see.
Attempted(got, flt) ==
    /\ Len(attempted) < Len(files_with_priority)
    /\ LET f == files_with_priority[Len(attempted) + 1]
       IN  /\ attempted' = Append(attempted,
                                  [name |-> f.name, items |-> got, faulted |-> flt])
           /\ all_items' = all_items \o got
           /\ processed_files' = IF got # <<>> THEN Append(processed_files, f.name)
                                 ELSE processed_files
           /\ opc' = IF \/ got # <<>> /\ StopsAfter(f.score)
                        \/ Len(attempted') = Len(files_with_priority)
                     THEN "collected" ELSE "files"
    /\ UNCHANGED <<num_in, num_out, json_files, disk, handled, results, candidates,
                   files_with_priority, final_items>>

Attempt ==
    /\ opc = "files"
    /\ \E got \in Extractions : \E flt \in BOOLEAN : Attempted(got, flt)
    /\ UNCHANGED evars

\* Lines 119-130 and 52-54: the items are deduplicated and the Licitacao is
\* constructed; process_directory appends it, or catches the ValidationError,
\* or the AttributeError of meta.get when "data" holds null.
BuildRecord ==
    /\ opc = "collected"
    /\ LET d   == handled[Len(handled)]
           lic == IF d.meta = NullData THEN [ok |-> FALSE]
                  ELSE Licitacao(d.name, d.meta, processed_files,
                                 DeduplicateItems(all_items))
       IN  /\ results' = IF lic.ok THEN Append(results, lic.v) ELSE results
           /\ handled' = [handled EXCEPT ![Len(handled)].faulted = ~lic.ok]
    /\ opc' = "idle"
    /\ candidates' = <<>>
    /\ files_with_priority' = <<>>
    /\ attempted' = <<>>
    /\ all_items' = <<>>
    /\ processed_files' = <<>>
    /\ final_items' = <<>>
    /\ UNCHANGED <<num_in, num_out, json_files, disk>>
    /\ UNCHANGED evars

\* The loop over json_files is exhausted: process_directory returns results.
EndDirectory ==
    /\ opc = "idle"
    /\ Len(handled) = Len(json_files)
    /\ opc' = "end"
    /\ UNCHANGED <<num_in, num_out, json_files, disk, handled, results, candidates,
                   files_with_priority, attempted, all_items, processed_files,
                   final_items>>
    /\ UNCHANGED evars

\* json_files = list(input_dir.glob("*.json")): at most MaxDocs files.
InitOrch ==
    /\ NoExtraction
    /\ fname = None
    /\ num_in = None
    /\ num_out = NoNumber
    /\ opc = "idle"
    /\ \E n \in 0..MaxDocs : n <= Len(JsonNames) /\ json_files = SubSeq(JsonNames, 1, n)
    /\ disk = <<>>
    /\ handled = <<>>
    /\ results = <<>>
    /\ candidates = <<>>
    /\ files_with_priority = <<>>
    /\ attempted = <<>>
    /\ all_items = <<>>
    /\ processed_files = <<>>
    /\ final_items = <<>>

NextOrch ==
    \/ MalformedDocument
    \/ BeginDocument
    \/ Attempt
    \/ BuildRecord
    \/ EndDirectory

\* process_directory over one directory.
SpecOrch == InitOrch /\ [][NextOrch]_vars

\* ------------------------------------------------ the File Prioritizer alone
\* Supported attachments of one document.
MaxNames == 3

PrioNames ==
    {<<"e", "d", "i", "t", "a", "l", ".", "p", "d", "f">>, <<"t", "e", "r", "m", "o", "-", "r", "e", "f", "e", "r", "e", "n", "c", "i", "a", ".", "p", "d", "f">>, <<"a", "n", "e", "x", "o", "-", "r", "e", "l", "a", "c", "a", "o", "i", "t", "e", "n", "s", ".", "p", "d", "f">>,
     <<"T", "e", "r", "m", "o", "-", "E", "d", "i", "t", "a", "l", ".", "d", "o", "c", "x">>, <<"E", "D", "I", "T", "A", "L", "-", "R", "e", "l", "a", "ç", "ã", "o", "I", "t", "e", "n", "s", ".", "p", "d", "f">>, <<"T", "E", "R", "M", "O", ".", "d", "o", "c", "x">>,
     <<"p", "l", "a", "n", "i", "l", "h", "a", ".", "d", "o", "c", "x">>, <<"a", "n", "e", "x", "o", "U+2013", "r", "e", "l", "a", "c", "a", "o", "i", "t", "e", "n", "s", ".", "p", "d", "f">>, <<"t", "e", "r", "U+1D5C6", "o", ".", "p", "d", "f">>,
     <<"U+0435", "d", "i", "t", "a", "l", ".", "p", "d", "f">>, <<"U+1D413", "e", "r", "m", "o", ".", "p", "d", "f">>}

\* The enumerations of at most MaxNames distinct supported attachments.
Enumerations ==
    UNION {{s \in [1..n -> PrioNames] : \A i, j \in 1..n : i # j => s[i] # s[j]} :
           n \in 0..MaxNames}

InitPrio ==
    /\ NoExtraction
    /\ fname = None
    /\ num_in = None
    /\ num_out = NoNumber
    /\ opc = "idle"
    /\ json_files = <<>>
    /\ disk = <<>>
    /\ handled = <<>>
    /\ results = <<>>
    /\ candidates \in Enumerations
    /\ files_with_priority = <<>>
    /\ attempted = <<>>
    /\ all_items = <<>>
    /\ processed_files = <<>>
    /\ final_items = <<>>

\* Lines 86-94 on the enumerated candidates.
SortCandidates ==
    /\ opc = "idle"
    /\ opc' = "sorted"
    /\ files_with_priority' = Prioritize(candidates)
    /\ UNCHANGED <<num_in, num_out, json_files, disk, handled, results, candidates,
                   attempted,
                   all_items, processed_files, final_items>>
    /\ UNCHANGED evars

NextPrio == SortCandidates

SpecPrio == InitPrio /\ [][NextPrio]_vars

\* --------------------------------------------------- the Deduplicator alone
\* Items of one document before deduplication.
MaxItems == 3

Notebook == <<"N", "o", "t", "e", "b", "o", "o", "k", " ", "D", "e", "l", "l", " ", "C", "o", "r", "e", " ", "i", "7", " ", "1", "6", "G", "B", " ", "R", "A", "M", " ", "5", "1", "2", "G", "B">>

NotebookUpper == <<"N", "O", "T", "E", "B", "O", "O", "K", " ", "D", "E", "L", "L", " ", "C", "O", "R", "E", " ", "I", "7", " ", "1", "6", "G", "B", " ", "R", "A", "M", " ", "1", "T", "B", " ", "S", "S", "D", " ", "N", "V", "M", "e">>

DedupItem(lote, item, objeto) ==
    [lote |-> lote, item |-> item, objeto |-> objeto, quantidade |-> 1,
     unidade_fornecimento |-> <<"U", "N">>]

\* Items that share keys, numbers and the first 30 characters of the
\* description, with and without lot.
DedupItems ==
    {DedupItem(None, 1, Notebook),
     DedupItem(<<"G", "1">>, 1, NotebookUpper),
     DedupItem(<<"G", "3">>, 1, Notebook),
     DedupItem(<<"G", "2">>, 2, Notebook),
     DedupItem(<<"G", "2">>, 1, <<"M", "o", "n", "i", "t", "o", "r">>),
     DedupItem(None, 1, <<"M", "o", "n", "i", "t", "o", "r">>)}

ItemLists == UNION {[1..n -> DedupItems] : n \in 0..MaxItems}

InitDedup ==
    /\ NoExtraction
    /\ fname = None
    /\ num_in = None
    /\ num_out = NoNumber
    /\ opc = "idle"
    /\ json_files = <<>>
    /\ disk = <<>>
    /\ handled = <<>>
    /\ results = <<>>
    /\ candidates = <<>>
    /\ files_with_priority = <<>>
    /\ attempted = <<>>
    /\ all_items \in ItemLists
    /\ processed_files = <<>>
    /\ final_items = <<>>

\* final_items = self._deduplicate_items(all_items)
ApplyDedup ==
    /\ opc = "idle"
    /\ opc' = "deduped"
    /\ final_items' = DeduplicateItems(all_items)
    /\ UNCHANGED <<num_in, num_out, json_files, disk, handled, results, candidates,
                   files_with_priority, attempted, all_items, processed_files>>
    /\ UNCHANGED evars

\* _deduplicate_items on its own output
ApplyDedupAgain ==
    /\ opc = "deduped"
    /\ opc' = "twice"
    /\ final_items' = DeduplicateItems(final_items)
    /\ UNCHANGED <<num_in, num_out, json_files, disk, handled, results, candidates,
                   files_with_priority, attempted, all_items, processed_files>>
    /\ UNCHANGED evars

NextDedup ==
    \/ ApplyDedup
    \/ ApplyDedupAgain

SpecDedup == InitDedup /\ [][NextDedup]_vars

\* ---------------------------------------------- the Numeric Normalizer alone
\* Characters of an argument of _clean_number.
MaxNumLen == 3

NumAlphabet == {"0", "5", "-", ",", ".", "a"}

\* The arguments: every string of at most MaxNumLen characters of the
\* alphabet, and the examples.
NumInputs ==
    UNION {[1..n -> NumAlphabet] : n \in 0..MaxNumLen}
    \cup {<<"1", ".", "2", "3", "4", ",", "5", "6">>, <<"a", "b", "c">>, <<"-", "5">>, <<"0">>, <<"1", "0", " ", "u", "n">>}

InitNum ==
    /\ NoExtraction
    /\ fname = None
    /\ num_in \in NumInputs
    /\ num_out = NoNumber
    /\ opc = "idle"
    /\ json_files = <<>>
    /\ disk = <<>>
    /\ handled = <<>>
    /\ results = <<>>
    /\ candidates = <<>>
    /\ files_with_priority = <<>>
    /\ attempted = <<>>
    /\ all_items = <<>>
    /\ processed_files = <<>>
    /\ final_items = <<>>

\* self._clean_number(val)
Normalize ==
    /\ opc = "idle"
    /\ opc' = "normalized"
    /\ num_out' = CleanNumber(num_in)
    /\ UNCHANGED <<num_in, json_files, disk, handled, results, candidates,
                   files_with_priority, attempted, all_items, processed_files,
                   final_items>>
    /\ UNCHANGED evars

NextNum == Normalize

SpecNum == InitNum /\ [][NextNum]_vars

\* ----------------------------------------------- the Header Identifier alone
\* Cells of a first row.
MaxCols == 3

HeaderCells ==
    {<<"I", "T", "E", "M">>, <<"Q", "T", "D", "E">>, <<" ", "D", "e", "s", "c", "r", "i", "ç", "ã", "o", " ">>, <<"U", "N", "I", "D">>, <<"L", "O", "T", "E">>, None,
     <<"Q", "u", "a", "n", "t", "i", "d", "a", "d", "e", " ", "d", "o", " ", "i", "t", "e", "m">>}

\* The first rows: every row of at most MaxCols of the cells, the example,
\* and rows with characters that are not accented letters: U+0141 and the
\* ligature U+FB01, the mathematical sans-serif m (U+1D5C6) in "Emb", the
\* Cyrillic o (U+043E) in "Lote", the mathematical bold L (U+1D40B) in
\* "Lote".
HeaderInputs ==
    UNION {[1..n -> HeaderCells] : n \in 0..MaxCols}
    \cup {<<<<"I", "T", "E", "M">>, <<"Q", "T", "D", "E">>, <<"D", "E", "S", "C", "R", "I", "Ç", "Ã", "O">>, <<"U", "N", "I", "D">>, <<"L", "O", "T", "E">>>>,
          <<<<"U+0141", "O", "T", "E">>, <<"E", "s", "p", "e", "c", "i", "U+FB01", "c", "a", "ç", "ã", "o">>, <<"Q", "t", "d">>>>,
          <<<<"E", "s", "p", "e", "c", "i", "U+FB01", "c", "a", "ç", "ã", "o">>, <<"Q", "u", "a", "n", "t", "i", "d", "a", "d", "e", " ", "d", "o", " ", "i", "t", "e", "m">>, <<"I", "T", "E", "M">>>>,
          <<<<"O", "b", "j", "e", "t", "o">>, <<"Q", "t", "d">>, <<"E", "U+1D5C6", "b">>>>,
          <<<<"L", "U+043E", "t", "e">>, <<"O", "b", "j", "e", "t", "o">>, <<"Q", "t", "d">>>>,
          <<<<"U+1D40B", "o", "t", "e">>, <<"O", "b", "j", "e", "t", "o">>, <<"Q", "t", "d">>>>}

InitHeader ==
    /\ NoOrchestration
    /\ fname = None
    /\ pc = "start"
    /\ state = FreshState
    /\ header_map = NoMapping
    /\ row \in HeaderInputs
    /\ items = <<>>
    /\ extracted_items = <<>>
    /\ current_item = EmptyBuffer
    /\ current_lote = None
    /\ text_items = <<>>
    /\ line = EOF
    /\ next_line = EOF
    /\ ntables = 0
    /\ nrows = 0
    /\ nlines = 0
    /\ fault = FALSE
    /\ lot_seen = None
    /\ head = None
    /\ counted = {}
    /\ form = <<>>
    /\ doc = <<>>

\* header_map = self._identify_columns(table[0])
IdentifyHeader ==
    /\ pc = "start"
    /\ pc' = "identified"
    /\ header_map' = IdentifyColumns(row)
    /\ UNCHANGED <<fname, state, row, items, extracted_items, current_item,
                   current_lote, text_items, line, next_line, ntables, nrows,
                   nlines, fault, lot_seen, form, doc, head, counted>>
    /\ UNCHANGED ovars

NextHeader == IdentifyHeader

SpecHeader == InitHeader /\ [][NextHeader]_vars


\* ------------------------------------------------------ the Row Parser alone
\* Cells of a data row.
MaxCells == 3

RowCells == {None, <<>>, <<"a", "b">>, <<"a", "b", "c">>, <<" ", "a", "b", "\n">>, <<"0", ",", "5">>, <<"7">>, <<"G", "1">>, Huge}

\* The data rows: every row of at most MaxCells of the cells.
RowInputs == UNION {[1..n -> RowCells] : n \in 0..MaxCells}

\* First rows whose mappings the rows are parsed under.
RowHeaders ==
    {<<<<"I", "T", "E", "M">>, <<"Q", "T", "D", "E">>, <<"D", "E", "S", "C", "R", "I", "Ç", "Ã", "O">>, <<"U", "N", "I", "D">>, <<"L", "O", "T", "E">>>>,
     <<<<"L", "o", "t", "e">>, <<"D", "e", "s", "c", "r", "i", "ç", "ã", "o">>, <<"Q", "t", "d">>>>,
     <<<<"O", "b", "j", "e", "t", "o">>, <<"Q", "u", "a", "n", "t", "i", "d", "a", "d", "e">>>>,
     <<<<"D", "e", "s", "c", "r", "i", "ç", "ã", "o", " ", "(", "q", "t", "d", "e", ")">>>>}

RowMappings == {IdentifyColumns(h) : h \in RowHeaders}

\* The ExtractionState the row is parsed in.
RowStates == {FreshState, [last_lote |-> <<"G", "1">>, item_counter |-> 4]}

InitRow ==
    /\ NoOrchestration
    /\ fname = None
    /\ pc = "start"
    /\ state \in RowStates
    /\ header_map \in RowMappings
    /\ row \in RowInputs
    /\ items = <<>>
    /\ extracted_items = <<>>
    /\ current_item = EmptyBuffer
    /\ current_lote = None
    /\ text_items = <<>>
    /\ line = EOF
    /\ next_line = EOF
    /\ ntables = 0
    /\ nrows = 0
    /\ nlines = 0
    /\ fault = FALSE
    /\ lot_seen = None
    /\ head = None
    /\ counted = {}
    /\ form = <<>>
    /\ doc = <<>>

\* item = self._parse_row(row, header_map, state); if item: items.append(item).
\* fault records an exception that reaches the caller.
ApplyParseRow ==
    /\ pc = "start"
    /\ pc' = "parsed"
    /\ LET res == ParseRow(row, header_map, state)
       IN  /\ state' = res.state
           /\ items' = IF res.ok THEN Append(items, res.v) ELSE items
    /\ fault' = ParseRowEscapes(RaisedInParseRow(row, header_map, state))
    /\ nrows' = nrows + 1
    /\ UNCHANGED <<fname, header_map, row, extracted_items, current_item,
                   current_lote, text_items, line, next_line, ntables, nlines,
                   lot_seen, head, counted, form, doc>>
    /\ UNCHANGED ovars

NextRow == ApplyParseRow

SpecRow == InitRow /\ [][NextRow]_vars
\* ---------------------------------------------------------------------------
\* The lookahead of the text scan: a label line in the middle of a scan, with
\* each kind of line below it.

\* Label lines: the three labels with nothing after the colon, a description
\* label without a colon, a label followed by blanks, one with its value and
\* one with a value above the largest double.
LabelLines ==
    {<<"D", "e", "s", "c", "r", "i", "ç", "ã", "o", ":">>, <<"D", "e", "s", "c", "r", "i", "ç", "ã", "o">>, <<" ", "O", "b", "j", "e", "t", "o", ":", " ">>, <<"Q", "u", "a", "n", "t", "i", "d", "a", "d", "e", ":">>,
     <<"U", "n", "i", "d", "a", "d", "e", ":">>, <<"Q", "u", "a", "n", "t", "i", "d", "a", "d", "e", ":", " ", "2", "0">>, <<"Q", "u", "a", "n", "t", "i", "d", "a", "d", "e", ":", " ">> \o Huge}

\* Lines below the label: empty, blank, a value, a number, a label with and
\* without a value, a lot-header, an end-of-item line and a number above the
\* largest double.
LookLines ==
    {<<>>, <<" ", " ">>, <<"M", "e", "s", "a", " ">>, <<"2", "0">>, <<"Q", "u", "a", "n", "t", "i", "d", "a", "d", "e", ":", " ", "7">>, <<"U", "n", "i", "d", "a", "d", "e", ":">>,
     <<"1", " ", "-", " ", "G", "R", "U", "P", "O", " ", "Ú", "N", "I", "C", "O">>, <<"D", "e", "s", "c", "r", "i", "ç", "ã", "o", ":", " ", "C", "a", "d", "e", "i", "r", "a", " ", "e", "r", "g", "o", "n", "ô", "m", "i", "c", "a">>,
     <<"L", "o", "c", "a", "l", " ", "d", "e", " ", "e", "n", "t", "r", "e", "g", "a", ":", " ", "A", "l", "m", "o", "x", "a", "r", "i", "f", "a", "d", "o">>, Huge}

\* current_item when the label line is reached
LookBuffers ==
    {EmptyBuffer,
     [EmptyBuffer EXCEPT !.objeto = <<"C", "a", "d", "e", "i", "r", "a", " ", "e", "r", "g", "o", "n", "ô", "m", "i", "c", "a">>],
     [EmptyBuffer EXCEPT !.objeto = <<"C", "a", "d", "e", "i", "r", "a", " ", "e", "r", "g", "o", "n", "ô", "m", "i", "c", "a">>, !.quantidade = 5]}

\* The scan stands at a label line; the line below it is the last but one of
\* the text, whose last line is empty.
InitLook ==
    /\ NoOrchestration
    /\ fname = <<"e", "d", "i", "t", "a", "l", ".", "p", "d", "f">>
    /\ pc = "scan"
    /\ state = FreshState
    /\ header_map = NoMapping
    /\ row = None
    /\ items = <<>>
    /\ extracted_items = <<>>
    /\ current_item \in LookBuffers
    /\ current_lote = None
    /\ text_items = <<>>
    /\ line \in LabelLines
    /\ next_line \in LookLines
    /\ ntables = 0
    /\ nrows = 0
    /\ nlines = MaxLines
    /\ fault = FALSE
    /\ lot_seen = None
    /\ head = None
    /\ counted = {}
    /\ form = <<>>
    /\ doc = <<>>

NextLook == ScanLine \/ FinalFlush

SpecLook == InitLook /\ [][NextLook]_vars


\* ------------------------------------------------ a run over a directory
\* process_directory over the documents of a directory, every attachment
\* extracted step by step by the two extractors the Orchestrator created at
\* orchestrator.py line 29 and uses for the whole run.  What the run reads is
\* laid down beforehand in disk, so that the same document can stand at two
\* places of one run.
MaxBefore == 1

\* An attachment: whether the library opens it, its tables in order (each
\* its rows, the header row first; <<>> is an empty table), the elements of
\* full_text.split("\n") when it is a PDF, and whether closing it raises.
Attachment(opens, tables, lines, close_raises) ==
    [opens |-> opens, tables |-> tables, lines |-> lines, close_raises |-> close_raises]

\* A document: whether json.load reads its JSON file, its "data" object, what
\* iterdir() gives for its attachments folder and, entry by entry, what the
\* entry holds (None for an entry that is not extracted).
Document(meta, entries, holds) ==
    [readable |-> TRUE, meta |-> meta, entries |-> entries, holds |-> holds]

Unreadable == [readable |-> FALSE, meta |-> NoMeta, entries |-> <<>>, holds |-> <<>>]

HeaderFull == <<<<"I", "T", "E", "M">>, <<"Q", "T", "D", "E">>, <<"D", "E", "S", "C", "R", "I", "Ç", "Ã", "O">>, <<"U", "N", "I", "D">>, <<"L", "O", "T", "E">>>>

RowDesk == <<<<"1">>, <<"1", "0">>, <<"D", "e", "s", "k">>, <<"U", "N">>, <<"G", "1">>>>

RowChair == <<<<>>, <<"5">>, <<"C", "h", "a", "i", "r">>, <<"U", "N">>, <<>>>>

RowLot == <<<<>>, <<>>, <<>>, <<>>, <<"G", "2">>>>

MetaMG == CHOOSE m \in Metas : m # NullData /\ m.estado = <<"M", "G">>

MetaSP == CHOOSE m \in Metas : m # NullData /\ m.estado = <<" ", "S", "P", "\n">>

DirTermo == CHOOSE d \in AttachmentDirs : Len(d) = 4

DirThree == CHOOSE d \in AttachmentDirs : Len(d) = 3 /\ d[1].is_file

DirAnexo == CHOOSE d \in AttachmentDirs : Len(d) = 3 /\ ~d[1].is_file

\* The documents of a run.  The first leaves a counter of 3 and the lot G1 in
\* the table pass and the lot 1 in the text pass; the second and the last
\* have rows and lines without a number and without a lot; the third has an
\* attachment that does not open, one whose table has no header and whose
\* text is empty, and one with a row that only names a lot; the fourth has
\* no readable JSON file; the fifth has "data": null and no attachment; in
\* the sixth the scan of the text raises.
SeqDocs ==
    {Document(MetaMG, DirTermo,
              <<Attachment(TRUE, <<>>,
                           <<<<"1", " ", "-", " ", "G", "R", "U", "P", "O", " ", "Ú", "N", "I", "C", "O">>, <<"D", "e", "s", "c", "r", "i", "ç", "ã", "o", ":", " ", "C", "a", "d", "e", "i", "r", "a", " ", "e", "r", "g", "o", "n", "ô", "m", "i", "c", "a">>,
                             <<"Q", "u", "a", "n", "t", "i", "d", "a", "d", "e", ":", " ", "2", "0">>, <<"L", "o", "c", "a", "l", " ", "d", "e", " ", "e", "n", "t", "r", "e", "g", "a", ":", " ", "A", "l", "m", "o", "x", "a", "r", "i", "f", "a", "d", "o">>, <<>>>>,
                           FALSE),
                None,
                Attachment(TRUE, <<<<HeaderFull, RowDesk, RowChair>>>>, <<>>, FALSE),
                None>>),
     Document(MetaMG, DirAnexo,
              <<None,
                Attachment(TRUE, <<<<>>, <<HeaderFull, RowChair>>>>,
                           <<<<"D", "e", "s", "c", "r", "i", "ç", "ã", "o", ":", " ", "C", "a", "d", "e", "i", "r", "a", " ", "e", "r", "g", "o", "n", "ô", "m", "i", "c", "a">>, <<"Q", "u", "a", "n", "t", "i", "d", "a", "d", "e", ":", " ", "2", "0">>, <<>>>>,
                           FALSE),
                None>>),
     Document(MetaSP, DirThree,
              <<Attachment(TRUE, <<<<HeaderFull, RowChair, RowLot, RowChair>>>>, <<>>, TRUE),
                Attachment(TRUE, <<<<<<<<"N", "o", "m", "e">>, <<"V", "a", "l", "o", "r">>>>, RowDesk>>>>, <<<<>>>>, TRUE),
                Attachment(FALSE, <<>>, <<>>, FALSE)>>),
     Unreadable,
     Document(NullData, <<>>, <<>>),
     Document(MetaSP, DirAnexo,
              <<None,
                Attachment(TRUE, <<<<HeaderFull, RowDesk>>>>,
                           <<<<"2", "-", "l", "o", "t", "e", " ", "D", "e", "s", "c", "r", "i", "ç", "ã", "o", ":", " ", "M", "e", "s", "a">>, <<"Q", "u", "a", "n", "t", "i", "d", "a", "d", "e", ":", " ">> \o Huge, <<>>>>,
                           FALSE),
                None>>),
     Document(MetaMG, DirTermo,
              <<Attachment(TRUE, <<>>,
                           <<<<"D", "e", "s", "c", "r", "i", "ç", "ã", "o", ":", " ", "C", "a", "d", "e", "i", "r", "a", " ", "e", "r", "g", "o", "n", "ô", "m", "i", "c", "a">>, <<"Q", "u", "a", "n", "t", "i", "d", "a", "d", "e", ":", " ", "2", "0">>, <<>>>>,
                           FALSE),
                None,
                Attachment(TRUE, <<<<HeaderFull, RowChair>>, <<HeaderFull, RowChair>>>>,
                           <<>>, FALSE),
                None>>)}

\* The runs: a document, at most MaxBefore documents, and the first document
\* again.
Runs ==
    {<<d>> \o ps \o <<d>> :
        d \in SeqDocs, ps \in UNION {[1..n -> SeqDocs] : n \in 0..MaxBefore}}

\* The document process_directory is at, and the one it takes next.
DocNow == disk[Len(handled)]

DocNext == disk[Len(handled) + 1]

\* The attachment extract() was given.
AttNow ==
    DocNow.holds[CHOOSE i \in 1..Len(DocNow.entries) : DocNow.entries[i].name = fname]

\* The table the loop over the tables is at, the rows of the attachment that
\* were in the tables before it, and the place in it of the row that _parse_row
\* is given next.
TableNow == AttNow.tables[ntables]

RECURSIVE RowsBefore(_)
RowsBefore(t) ==
    IF t <= 1 THEN 0
    ELSE RowsBefore(t - 1)
         + (IF AttNow.tables[t - 1] # <<>> /\ IdentifyColumns(AttNow.tables[t - 1][1]).ok
            THEN Len(AttNow.tables[t - 1]) - 1 ELSE 0)

RowNow == nrows - RowsBefore(ntables) + 2

\* Element k of the split text, EOF after the last.
LineAt(k) == IF k <= Len(AttNow.lines) THEN AttNow.lines[k] ELSE EOF

\* process_directory takes the next JSON file, which json.load cannot read.
SkipDocument ==
    /\ Len(handled) < Len(disk)
    /\ ~DocNext.readable
    /\ MalformedDocument

\* process_directory takes the next JSON file and _process_single_licitacao
\* lists and sorts its attachments.
TakeDocument ==
    /\ Len(handled) < Len(disk)
    /\ DocNext.readable
    /\ BeginDocument
    /\ handled'[Len(handled')].meta = DocNext.meta
    /\ candidates' = LET kept == SelectSeq(DocNext.entries, Supported)
                     IN  [i \in 1..Len(kept) |-> kept[i].name]

\* Lines 98-104: the loop over files_with_priority takes the next attachment
\* and calls extract() of the extractor of its suffix.  The extractor is the
\* one of the whole run: what its last call left is what the model's
\* variables still hold.
BeginExtract ==
    /\ opc = "files"
    /\ Len(attempted) < Len(files_with_priority)
    /\ opc' = "extract"
    /\ fname' = files_with_priority[Len(attempted) + 1].name
    /\ pc' = "start"
    /\ fault' = FALSE
    /\ ntables' = 0
    /\ nrows' = 0
    /\ nlines' = 0
    /\ UNCHANGED <<state, header_map, row, items, extracted_items, current_item,
                   current_lote, text_items, line, next_line, lot_seen, head, counted,
                   form, doc>>
    /\ UNCHANGED <<num_in, num_out, json_files, disk, handled, results, candidates,
                   files_with_priority, attempted, all_items, processed_files,
                   final_items>>

\* The steps of extract() on the attachment as it is on disk.
OpenAttachment ==
    /\ opc = "extract"
    /\ AttNow.opens
    /\ OpenFile

FailToOpen ==
    /\ opc = "extract"
    /\ pc = "start"
    /\ ~AttNow.opens
    /\ Fault

TakeTable ==
    /\ opc = "extract"
    /\ pc = "tables"
    /\ ntables < Len(AttNow.tables)
    /\ ReadTableOf(AttNow.tables[ntables + 1])

TakeRow ==
    /\ opc = "extract"
    /\ pc = "rows"
    /\ RowNow <= Len(TableNow)
    /\ ParseRowOf(TableNow[RowNow])

EndOfTable ==
    /\ opc = "extract"
    /\ pc = "rows"
    /\ RowNow > Len(TableNow)
    /\ EndTable

EndOfTables ==
    /\ opc = "extract"
    /\ pc = "tables"
    /\ ntables = Len(AttNow.tables)
    /\ EndTablesWith(AttNow.close_raises)

TakeText ==
    /\ opc = "extract"
    /\ BeginScan(LineAt(1), LineAt(2))
    /\ UNCHANGED <<form, doc>>
    /\ UNCHANGED ovars

TakeLine ==
    /\ opc = "extract"
    /\ Scan(LineAt(nlines + 1))
    /\ UNCHANGED <<form, doc>>
    /\ UNCHANGED ovars

EndOfText ==
    /\ opc = "extract"
    /\ FinalFlushWith(AttNow.close_raises)

\* Lines 104-112: extract() has returned its list.
Extracted ==
    /\ opc = "extract"
    /\ pc = "done"
    /\ Attempted(extracted_items, fault)
    /\ UNCHANGED evars

InitSeq ==
    /\ NoExtraction
    /\ fname = None
    /\ num_in = None
    /\ num_out = NoNumber
    /\ opc = "idle"
    /\ disk \in Runs
    /\ json_files = SubSeq(JsonNames, 1, Len(disk))
    /\ handled = <<>>
    /\ results = <<>>
    /\ candidates = <<>>
    /\ files_with_priority = <<>>
    /\ attempted = <<>>
    /\ all_items = <<>>
    /\ processed_files = <<>>
    /\ final_items = <<>>

NextSeq ==
    \/ SkipDocument
    \/ TakeDocument
    \/ BeginExtract
    \/ OpenAttachment
    \/ FailToOpen
    \/ TakeTable
    \/ TakeRow
    \/ EndOfTable
    \/ EndOfTables
    \/ TakeText
    \/ TakeLine
    \/ EndOfText
    \/ Extracted
    \/ BuildRecord
    \/ EndDirectory

\* process_directory over one directory, attachment by attachment.
SpecSeq == InitSeq /\ [][NextSeq]_vars
\* ===================================================================== claims
Last(s) == s[Len(s)]

\* A step of ParseRowStep: one more row was given to _parse_row.
RowStep == pc = "rows" /\ nrows' = nrows + 1

\* A step of ParseRowStep whose row was accepted (an item was emitted).
RowAccepted == RowStep /\ Len(items') = Len(items) + 1

\* ------------------------------------------------------------------------ C1
ItemSatisfiesSchema(it) ==
    it.item > 0 /\ it.quantidade > 0 /\ Len(it.objeto) >= 3

\* C1: every item emitted by any extraction path (rows of PDF/DOCX tables,
\* the text-fallback flush) has item > 0, quantidade > 0 and an objeto of at
\* least 3 characters.
C1_EmittedItemsValid ==
    /\ \A i \in 1..Len(items) : ItemSatisfiesSchema(items[i])
    /\ \A i \in 1..Len(text_items) : ItemSatisfiesSchema(text_items[i])
    /\ \A i \in 1..Len(extracted_items) : ItemSatisfiesSchema(extracted_items[i])

\* The table pass and the text fallback of one PDF have each emitted an item.
C1_Witness ==
    /\ pc = "done"
    /\ ~fault
    /\ Len(items) = 1
    /\ Len(text_items) = 1
    /\ Len(extracted_items) = 2

\* ------------------------------------------------------------------------ C2
\* C2 as stated: an accepted row whose item cell normalizes to a positive
\* number n is emitted with item number n and leaves item_counter = n + 1.
C2_ItemIsNormalizedNumber ==
    [][RowAccepted =>
         LET n == CleanNumber(GetVal(row', header_map.item))
         IN  n.ok => /\ IsWhole(n)
                     /\ Last(items').item = IntOf(n)
                     /\ state'.item_counter = IntOf(n) + 1]_vars

\* C2, amended: for every accepted row, if the item cell normalizes to a
\* positive number n the emitted item number is the integer part of n and
\* item_counter becomes that integer + 1; otherwise the emitted item number
\* is the value item_counter had before the call and item_counter is
\* increased by exactly 1.
C2_ItemResolution ==
    [][RowAccepted =>
         LET n == CleanNumber(GetVal(row', header_map.item))
         IN  IF n.ok
             THEN /\ Last(items').item = IntOf(n)
                  /\ state'.item_counter = IntOf(n) + 1
             ELSE /\ Last(items').item = state.item_counter
                  /\ state'.item_counter = state.item_counter + 1]_vars

\* An accepted row with the fractional item cell "3,5": item 3, counter 4.
C2_Witness ==
    /\ pc = "rows"
    /\ row # None
    /\ GetVal(row, header_map.item) = <<"3", ",", "5">>
    /\ items # <<>>
    /\ Last(items).item = 3
    /\ Last(items).objeto = <<"L", "a", "m", "p", " ", "L", "E", "D">>
    /\ state.item_counter = 4

\* ------------------------------------------------------------------------ C3
\* The columns of the example's rows: item, quantity, description, unit, lot.
FiveColumns ==
    [ok |-> TRUE, item |-> 1, quantidade |-> 2, objeto |-> 3,
     unidade_fornecimento |-> 4, lote |-> 5]

\* C3 as stated: an accepted row with lot text is emitted with that lot and
\* sets last_lot; an accepted row with blank lot text is emitted with the lot
\* of the most recent earlier row that supplied one (absent if none).
C3_InheritsLastSuppliedLot ==
    [][RowAccepted =>
         LET lot == GetVal(row', header_map.lote)
         IN  IF lot # <<>>
             THEN Last(items').lote = lot /\ state'.last_lote = lot
             ELSE Last(items').lote = lot_seen]_vars

\* C3, amended: an accepted row with lot text is emitted with that lot; an
\* accepted row with blank lot text is emitted with last_lot, and last_lot is
\* the lot of the most recent earlier row that supplied one, passed the
\* description and quantity checks (steps 1-2) and had no infinite item
\* number, emitted or not; a row rejected by those checks or for its
\* infinite item number leaves last_lot alone.  Rows
\* ("1","10","Desk","UN","G1") then ("","5","Chair","UN","") give item 1
\* with lot G1 and item 2 with lot G1.
C3_LotInheritance ==
    [][RowStep =>
         LET lot    == GetVal(row', header_map.lote)
             passed == /\ GetVal(row', header_map.objeto) # <<>>
                       /\ GetVal(row', header_map.quantidade) # <<>>
                       /\ CleanNumber(GetVal(row', header_map.quantidade)).ok
                       /\ ~CleanNumber(GetVal(row', header_map.item)).inf
         IN  /\ state'.last_lote = IF lot # <<>> /\ passed THEN lot ELSE state.last_lote
             /\ RowAccepted =>
                  Last(items').lote = IF lot # <<>> THEN lot ELSE state.last_lote
             /\ (state = FreshState /\ header_map = FiveColumns
                   /\ row' = <<<<"1">>, <<"1", "0">>, <<"D", "e", "s", "k">>, <<"U", "N">>, <<"G", "1">>>>) =>
                  /\ RowAccepted
                  /\ Last(items').item = 1 /\ Last(items').lote = <<"G", "1">>
             /\ (row = <<<<"1">>, <<"1", "0">>, <<"D", "e", "s", "k">>, <<"U", "N">>, <<"G", "1">>>>
                   /\ state = [last_lote |-> <<"G", "1">>, item_counter |-> 2]
                   /\ header_map = FiveColumns
                   /\ row' = <<<<>>, <<"5">>, <<"C", "h", "a", "i", "r">>, <<"U", "N">>, <<>>>>) =>
                  /\ RowAccepted
                  /\ Last(items').item = 2 /\ Last(items').lote = <<"G", "1">>]_vars

\* The two rows of the example were read in order by one ExtractionState.
C3_Witness ==
    /\ pc = "rows"
    /\ header_map = FiveColumns
    /\ nrows = 2
    /\ row = <<<<>>, <<"5">>, <<"C", "h", "a", "i", "r">>, <<"U", "N">>, <<>>>>
    /\ Len(items) = 2
    /\ items[1].item = 1 /\ items[1].lote = <<"G", "1">> /\ items[1].objeto = <<"D", "e", "s", "k">>
    /\ items[2].item = 2 /\ items[2].lote = <<"G", "1">> /\ items[2].objeto = <<"C", "h", "a", "i", "r">>
    /\ state = [last_lote |-> <<"G", "1">>, item_counter |-> 3]

\* ------------------------------------------------------------------------ C4
\* C4: within one attachment one ExtractionState serves all tables: last_lot
\* and item_counter are (absent, 1) when the attachment's extraction starts,
\* and after that only a call of the row parser changes them, so the first
\* data row of a table finds the values the last row of the previous table
\* left.
C4_StateSharedAcrossTables ==
    [][/\ (pc = "start" /\ pc' = "tables") => state' = FreshState
       /\ (pc # "start" /\ ~RowStep) => state' = state]_vars

\* The second table of a DOCX attachment is being read with the lot and the
\* counter the first table left.
C4_Witness ==
    /\ IsDocx(fname)
    /\ pc = "rows"
    /\ ntables = 2
    /\ nrows = 1
    /\ extracted_items # <<>>
    /\ state.last_lote = <<"G", "1">>
    /\ state.item_counter = 2

\* ------------------------------------------------------------------------ C5
\* The unit an item of block b should hold: the block's unit, or the value
\* of its delivery-location line when that line holds "unidade" and not
\* "quantidade".
UnitOfBlock(b) ==
    IF /\ Contains(Lower(PlaceLine(b)), <<"u", "n", "i", "d", "a", "d", "e">>)
       /\ ~Contains(Lower(PlaceLine(b)), <<"q", "u", "a", "n", "t", "i", "d", "a", "d", "e">>)
    THEN b.qtd.place
    ELSE b.qtd.unit

\* The items a form should give: one per block whose description and
\* quantity are valid, numbered 1, 2, ..., with the lot of the most recent
\* lot-header.
RECURSIVE ExpectedFrom(_, _, _)
ExpectedFrom(f, lot, acc) ==
    IF f = <<>> THEN acc
    ELSE LET b    == Head(f)
             lot2 == IF b.hdr.txt = None THEN lot ELSE b.hdr.lot
         IN  IF b.desc.valid /\ b.qtd.valid
             THEN ExpectedFrom(Tail(f), lot2,
                      Append(acc, [lote |-> lot2, item |-> Len(acc) + 1,
                                   objeto |-> b.desc.objeto,
                                   quantidade |-> b.qtd.quantidade,
                                   unidade_fornecimento |-> UnitOfBlock(b)]))
             ELSE ExpectedFrom(Tail(f), lot2, acc)

\* The lot-header in force at block k of form f.
RECURSIVE LotAt(_, _)
LotAt(f, k) ==
    IF k = 0 THEN None
    ELSE IF f[k].hdr.txt # None THEN f[k].hdr.lot ELSE LotAt(f, k - 1)

\* C5 as stated: a text of well-formed form blocks gives exactly one item
\* per block, in order, numbered 1, 2, ..., with the block's unit and the
\* lot of the most recent lot-header.
C5_OneItemPerBlock ==
    (pc = "done" /\ form # <<>>) =>
        /\ Len(text_items) = Len(form)
        /\ \A k \in 1..Len(form) :
              /\ text_items[k].item = k
              /\ text_items[k].unidade_fornecimento = form[k].qtd.unit
              /\ text_items[k].lote = LotAt(form, k)

\* C5, amended: a text of well-formed form blocks, each line taken by the
\* scan as a line of its kind except that the delivery-location line may
\* also hold "unidade" or "quantidade", none of whose quantities normalizes
\* to infinity gives exactly one item per block whose description (without
\* the prefix "Detalhada:") has at least 3 characters and whose quantity
\* normalizes to a number of at least 1, and none for any other block; the
\* items come in block order, numbered 1, 2, ..., each with its block's
\* description without the prefix, the integer part of its quantity, the lot
\* of the most recent lot-header and its unit, or the value of its
\* delivery-location line when that line holds "unidade" and not
\* "quantidade".  A text with a quantity that normalizes to infinity gives no
\* item: the scan raises at it.  The single block of the example gives
\* objeto "Cadeira ergonômica", quantidade 20, unidade_fornecimento "UN",
\* lote "1", item 1.
C5_OneItemPerValidBlock ==
    (pc = "done" /\ form # <<>>) =>
        /\ (\E k \in 1..Len(form) : form[k].qtd.inf) => fault /\ extracted_items = <<>>
        /\ (\A k \in 1..Len(form) : ~form[k].qtd.inf) =>
               /\ text_items = ExpectedFrom(form, None, <<>>)
               /\ extracted_items = text_items
        /\ form = <<[hdr  |-> [txt |-> <<"1", " ", "-", " ", "G", "R", "U", "P", "O", " ", "Ú", "N", "I", "C", "O">>, lot |-> <<"1">>],
                     desc |-> [txt |-> <<"C", "a", "d", "e", "i", "r", "a", " ", "e", "r", "g", "o", "n", "ô", "m", "i", "c", "a">>,
                               objeto |-> <<"C", "a", "d", "e", "i", "r", "a", " ", "e", "r", "g", "o", "n", "ô", "m", "i", "c", "a">>, valid |-> TRUE],
                     qtd  |-> [txt |-> <<"2", "0">>, unit |-> <<"U", "N">>, place |-> <<"A", "l", "m", "o", "x", "a", "r", "i", "f", "a", "d", "o">>,
                               label |-> <<"L", "o", "c", "a", "l", " ", "d", "e", " ", "e", "n", "t", "r", "e", "g", "a">>, quantidade |-> 20,
                               valid |-> TRUE, inf |-> FALSE]]>>
             => text_items = <<[lote |-> <<"1">>, item |-> 1,
                                objeto |-> <<"C", "a", "d", "e", "i", "r", "a", " ", "e", "r", "g", "o", "n", "ô", "m", "i", "c", "a">>, quantidade |-> 20,
                                unidade_fornecimento |-> <<"U", "N">>]>>

\* Two valid blocks were scanned, the second under the lot-header of the
\* first, and gave items 1 and 2 of lot "1".  The delivery-location line of
\* the first was taken as a unit line and did not end the item: the item
\* holds that line's value as its unit and was emitted at the description
\* line of the second block.
C5_Witness ==
    /\ pc = "done"
    /\ Len(form) = 2
    /\ form[1].hdr.lot = <<"1">>
    /\ form[1].qtd.place = <<"U", "n", "i", "d", "a", "d", "e", " ", "B", "a", "s", "i", "c", "a", " ", "d", "e", " ", "S", "a", "u", "d", "e">>
    /\ form[2].hdr.txt = None
    /\ Len(text_items) = 2
    /\ text_items[1].item = 1 /\ text_items[1].lote = <<"1">>
    /\ text_items[1].unidade_fornecimento = <<"U", "n", "i", "d", "a", "d", "e", " ", "B", "a", "s", "i", "c", "a", " ", "d", "e", " ", "S", "a", "u", "d", "e">>
    /\ text_items[2].item = 2 /\ text_items[2].lote = <<"1">>
    /\ text_items[2].quantidade = 1234
    /\ text_items[2].unidade_fornecimento = <<"C", "X">>

\* ------------------------------------------------------------------------ C6
\* A step of the scan loop that did not raise, and the stripped line it is
\* at.
ScanStepTaken == pc = "scan" /\ pc' = "scan" /\ line # EOF

\* The step of the final flush: the scan is over.
FinalFlushTaken == pc = "scan" /\ pc' = "done" /\ line = EOF

\* A line that reaches the end-of-item branch of _process_text_line.
EndOfItemLine(ln) ==
    /\ ln # <<>>
    /\ ~IsLotHeader(ln)
    /\ Contains(Lower(ln), <<"l", "o", "c", "a", "l", " ", "d", "e", " ", "e", "n", "t", "r", "e", "g", "a">>)
    /\ ~Contains(Lower(ln), <<"d", "e", "s", "c", "r", "i", "ç", "ã", "o">>)
    /\ ~Contains(Lower(ln), <<"o", "b", "j", "e", "t", "o", ":">>)
    /\ ~Contains(ln, <<":">>) \/ (~Contains(Lower(ln), <<"q", "u", "a", "n", "t", "i", "d", "a", "d", "e">>)
                                   /\ ~Contains(Lower(ln), <<"u", "n", "i", "d", "a", "d", "e">>))

\* C6: after every flush point of the text scan (a lot-header line, an
\* end-of-item line, the end of the scan) the current-item buffer is empty,
\* whether or not an item was emitted.
C6_BufferEmptyAfterFlushPoint ==
    [][/\ (ScanStepTaken /\ Strip(line) # <<>> /\ IsLotHeader(Strip(line)))
             => current_item' = EmptyBuffer
       /\ (ScanStepTaken /\ EndOfItemLine(Strip(line)))
             => current_item' = EmptyBuffer
       /\ FinalFlushTaken => current_item' = EmptyBuffer]_vars

\* ------------------------------------------------------------------------ C7
\* C7: every line of the text scan that contains "local de entrega" and is
\* no lot-header ends the item: a buffer that holds description and quantity
\* when the line is scanned is flushed at it, whatever other label the line
\* holds.
C7_DeliveryLineFlushes ==
    [][(/\ ScanStepTaken
        /\ Strip(line) # <<>>
        /\ ~IsLotHeader(Strip(line))
        /\ Contains(Lower(Strip(line)), <<"l", "o", "c", "a", "l", " ", "d", "e", " ", "e", "n", "t", "r", "e", "g", "a">>)
        /\ Complete(current_item))
          => /\ current_item'.quantidade = NoQtd
             /\ current_item'.unidade_fornecimento = None]_vars

\* ------------------------------------------------------------------------ C8
\* A buffer that _save_buffer_item turns into an item.
BufferGivesItem(buf) ==
    /\ Complete(buf)
    /\ buf.quantidade > 0
    /\ Len(Strip(RemoveSub(buf.objeto, <<"D", "e", "t", "a", "l", "h", "a", "d", "a", ":">>))) >= 3

\* C8: at a lot-header line a buffer that holds description and quantity is
\* flushed first, its item carrying the lot that was current before the line,
\* and only then the current lot becomes the text before the line's first
\* hyphen; the line is never read as a description, quantity, unit or
\* end-of-item line (it writes no field and flushes no incomplete buffer).
C8_LotHeaderFlushesFirst ==
    [][(ScanStepTaken /\ Strip(line) # <<>> /\ IsLotHeader(Strip(line))) =>
         /\ current_lote' = Strip(SplitHead(Strip(line), "-"))
         /\ IF Complete(current_item)
            THEN /\ current_item' = EmptyBuffer
                 /\ IF BufferGivesItem(current_item)
                    THEN /\ Len(text_items') = Len(text_items) + 1
                         /\ SubSeq(text_items', 1, Len(text_items)) = text_items
                         /\ Last(text_items').lote = current_lote
                         /\ Last(text_items').quantidade = current_item.quantidade
                    ELSE text_items' = text_items
            ELSE /\ current_item' = current_item
                 /\ text_items' = text_items]_vars

\* A lot-header line that also holds a description label has just flushed a
\* complete buffer: the item has no lot, the current lot is "2", and the
\* buffer is empty.
C8_Witness ==
    /\ pc = "scan"
    /\ nlines = 4
    /\ line = <<>>
    /\ next_line = EOF
    /\ current_lote = <<"2">>
    /\ current_item = EmptyBuffer
    /\ Len(text_items) = 1
    /\ text_items[1].lote = None
    /\ text_items[1].quantidade = 20

\* ------------------------------------------------------------------------ C9
\* C9: the items of one text-fallback pass are numbered consecutively from
\* 1: the k-th emitted item has item number k, whatever numbers the text
\* holds, whatever buffers were dropped and whatever the table pass of the
\* same PDF produced.
C9_TextItemsNumberedFromOne ==
    \A k \in 1..Len(text_items) : text_items[k].item = k

\* The table pass gave an item numbered 3 and the text pass of the same PDF
\* then gave its first item, numbered 1.
C9_Witness ==
    /\ pc = "done"
    /\ Len(items) = 1
    /\ items[1].item = 3
    /\ Len(text_items) = 1
    /\ text_items[1].item = 1

\* ----------------------------------------------------------------------- C10
\* The file name that holds the form-layout marker, in mixed case.
HasFormMarker == fname = <<"A", "n", "e", "x", "o", "-", "R", "e", "l", "a", "c", "a", "o", "I", "t", "e", "n", "s", ".", "p", "d", "f">>

\* C10: for a PDF the text fallback runs if and only if the table pass gave
\* no items or the file name holds the form-layout marker, whatever its
\* case; when it runs after the table pass gave items, the result is the
\* table items followed by the text items.
C10_TextFallbackCondition ==
    /\ pc \in {"text", "scan"} => IsPdf(fname) /\ (items = <<>> \/ HasFormMarker)
    /\ (pc = "done" /\ IsPdf(fname) /\ ~fault) =>
          /\ (nlines > 0) <=> (items = <<>> \/ HasFormMarker)
          /\ extracted_items = items \o text_items
    /\ IsDocx(fname) => nlines = 0 /\ text_items = <<>>

\* The marked PDF gave a table item and then a text item: the result holds
\* the table item first.
C10_Witness ==
    /\ pc = "done"
    /\ ~fault
    /\ HasFormMarker
    /\ Len(items) = 1
    /\ Len(text_items) = 1
    /\ extracted_items = <<items[1], text_items[1]>>

\* ----------------------------------------------------------------------- C11
\* The i-th attempted attachment yielded an item and has a top-tier score.
TopTierYield(i) ==
    attempted[i].items # <<>> /\ files_with_priority[i].score >= FILE_PRIORITY_BREAK

\* C11: for one document the attachments attempted are a prefix of the
\* priority-sorted candidate list; the loop stops at the first attachment
\* that both yields an item and has a top-tier score, and at no other: when
\* the loop is over, either that attachment was the last one attempted or
\* every candidate was attempted.
C11_AttemptsArePrefix ==
    /\ Len(attempted) <= Len(files_with_priority)
    /\ \A i \in 1..Len(attempted) : attempted[i].name = files_with_priority[i].name
    /\ \A i \in 1..Len(attempted) :
          TopTierYield(i) => i = Len(attempted) /\ opc = "collected"
    /\ (opc = "collected" /\ files_with_priority # <<>>) =>
          \/ Len(attempted) = Len(files_with_priority)
          \/ TopTierYield(Len(attempted))

\* Of three candidates the first, the item list, yielded items and the loop
\* stopped: the term of reference and the notice were not attempted.
C11_Witness ==
    /\ opc = "collected"
    /\ Len(files_with_priority) = 3
    /\ Len(attempted) = 1
    /\ attempted[1].name = <<"a", "n", "e", "x", "o", "-", "r", "e", "l", "a", "c", "a", "o", "i", "t", "e", "n", "s", ".", "p", "d", "f">>
    /\ attempted[1].items # <<>>
    /\ processed_files = <<<<"a", "n", "e", "x", "o", "-", "r", "e", "l", "a", "c", "a", "o", "i", "t", "e", "n", "s", ".", "p", "d", "f">>>>

\* ----------------------------------------------------------------------- C12
\* The place of a name in the enumeration.
EnumIndex(name) == CHOOSE i \in 1..Len(candidates) : candidates[i] = name

\* Accent stripping as the specification words it: a letter with marks is
\* its base letter, a combining mark is nothing, every other character is
\* itself.  The letters with marks of U+00C0 to U+024F and U+1E00 to U+1EFF,
\* by base letter:
AccentedLetters ==
    <<<<"A", {"À", "Á", "Â", "Ã", "Ä", "Å", "U+0100", "U+0102", "U+0104", "U+01CD", "U+01DE",
            "U+01E0", "U+01FA", "U+0200", "U+0202", "U+0226", "U+1E00", "U+1EA0", "U+1EA2",
            "U+1EA4", "U+1EA6", "U+1EA8", "U+1EAA", "U+1EAC", "U+1EAE", "U+1EB0", "U+1EB2",
            "U+1EB4", "U+1EB6"}>>,
      <<"B", {"U+1E02", "U+1E04", "U+1E06"}>>,
      <<"C", {"Ç", "U+0106", "U+0108", "U+010A", "U+010C", "U+1E08"}>>,
      <<"D", {"U+010E", "U+1E0A", "U+1E0C", "U+1E0E", "U+1E10", "U+1E12"}>>,
      <<"E", {"È", "É", "Ê", "Ë", "U+0112", "U+0114", "U+0116", "U+0118", "U+011A", "U+0204",
            "U+0206", "U+0228", "U+1E14", "U+1E16", "U+1E18", "U+1E1A", "U+1E1C", "U+1EB8",
            "U+1EBA", "U+1EBC", "U+1EBE", "U+1EC0", "U+1EC2", "U+1EC4", "U+1EC6"}>>,
      <<"F", {"U+1E1E"}>>,
      <<"G", {"U+011C", "U+011E", "U+0120", "U+0122", "U+01E6", "U+01F4", "U+1E20"}>>,
      <<"H", {"U+0124", "U+021E", "U+1E22", "U+1E24", "U+1E26", "U+1E28", "U+1E2A"}>>,
      <<"I", {"Ì", "Í", "Î", "Ï", "U+0128", "U+012A", "U+012C", "U+012E", "U+0130", "U+01CF",
            "U+0208", "U+020A", "U+1E2C", "U+1E2E", "U+1EC8", "U+1ECA"}>>,
      <<"J", {"U+0134"}>>,
      <<"K", {"U+0136", "U+01E8", "U+1E30", "U+1E32", "U+1E34"}>>,
      <<"L", {"U+0139", "U+013B", "U+013D", "U+1E36", "U+1E38", "U+1E3A", "U+1E3C"}>>,
      <<"M", {"U+1E3E", "U+1E40", "U+1E42"}>>,
      <<"N", {"Ñ", "U+0143", "U+0145", "U+0147", "U+01F8", "U+1E44", "U+1E46", "U+1E48",
            "U+1E4A"}>>,
      <<"O", {"Ò", "Ó", "Ô", "Õ", "Ö", "U+014C", "U+014E", "U+0150", "U+01A0", "U+01D1",
            "U+01EA", "U+01EC", "U+020C", "U+020E", "U+022A", "U+022C", "U+022E", "U+0230",
            "U+1E4C", "U+1E4E", "U+1E50", "U+1E52", "U+1ECC", "U+1ECE", "U+1ED0", "U+1ED2",
            "U+1ED4", "U+1ED6", "U+1ED8", "U+1EDA", "U+1EDC", "U+1EDE", "U+1EE0", "U+1EE2"}>>,
      <<"P", {"U+1E54", "U+1E56"}>>,
      <<"R", {"U+0154", "U+0156", "U+0158", "U+0210", "U+0212", "U+1E58", "U+1E5A", "U+1E5C",
            "U+1E5E"}>>,
      <<"S", {"U+015A", "U+015C", "U+015E", "U+0160", "U+0218", "U+1E60", "U+1E62", "U+1E64",
            "U+1E66", "U+1E68"}>>,
      <<"T", {"U+0162", "U+0164", "U+021A", "U+1E6A", "U+1E6C", "U+1E6E", "U+1E70"}>>,
      <<"U", {"Ù", "Ú", "Û", "Ü", "U+0168", "U+016A", "U+016C", "U+016E", "U+0170", "U+0172",
            "U+01AF", "U+01D3", "U+01D5", "U+01D7", "U+01D9", "U+01DB", "U+0214", "U+0216",
            "U+1E72", "U+1E74", "U+1E76", "U+1E78", "U+1E7A", "U+1EE4", "U+1EE6", "U+1EE8",
            "U+1EEA", "U+1EEC", "U+1EEE", "U+1EF0"}>>,
      <<"V", {"U+1E7C", "U+1E7E"}>>,
      <<"W", {"U+0174", "U+1E80", "U+1E82", "U+1E84", "U+1E86", "U+1E88"}>>,
      <<"X", {"U+1E8A", "U+1E8C"}>>,
      <<"Y", {"Ý", "U+0176", "U+0178", "U+0232", "U+1E8E", "U+1EF2", "U+1EF4", "U+1EF6",
            "U+1EF8"}>>,
      <<"Z", {"U+0179", "U+017B", "U+017D", "U+1E90", "U+1E92", "U+1E94"}>>,
      <<"a", {"à", "á", "â", "ã", "ä", "å", "U+0101", "U+0103", "U+0105", "U+01CE", "U+01DF",
            "U+01E1", "U+01FB", "U+0201", "U+0203", "U+0227", "U+1E01", "U+1EA1", "U+1EA3",
            "U+1EA5", "U+1EA7", "U+1EA9", "U+1EAB", "U+1EAD", "U+1EAF", "U+1EB1", "U+1EB3",
            "U+1EB5", "U+1EB7"}>>,
      <<"b", {"U+1E03", "U+1E05", "U+1E07"}>>,
      <<"c", {"ç", "U+0107", "U+0109", "U+010B", "U+010D", "U+1E09"}>>,
      <<"d", {"U+010F", "U+1E0B", "U+1E0D", "U+1E0F", "U+1E11", "U+1E13"}>>,
      <<"e", {"è", "é", "ê", "ë", "U+0113", "U+0115", "U+0117", "U+0119", "U+011B", "U+0205",
            "U+0207", "U+0229", "U+1E15", "U+1E17", "U+1E19", "U+1E1B", "U+1E1D", "U+1EB9",
            "U+1EBB", "U+1EBD", "U+1EBF", "U+1EC1", "U+1EC3", "U+1EC5", "U+1EC7"}>>,
      <<"f", {"U+1E1F"}>>,
      <<"g", {"U+011D", "U+011F", "U+0121", "U+0123", "U+01E7", "U+01F5", "U+1E21"}>>,
      <<"h", {"U+0125", "U+021F", "U+1E23", "U+1E25", "U+1E27", "U+1E29", "U+1E2B", "U+1E96"}>>,
      <<"i", {"ì", "í", "î", "ï", "U+0129", "U+012B", "U+012D", "U+012F", "U+01D0", "U+0209",
            "U+020B", "U+1E2D", "U+1E2F", "U+1EC9", "U+1ECB"}>>,
      <<"j", {"U+0135", "U+01F0"}>>,
      <<"k", {"U+0137", "U+01E9", "U+1E31", "U+1E33", "U+1E35"}>>,
      <<"l", {"U+013A", "U+013C", "U+013E", "U+1E37", "U+1E39", "U+1E3B", "U+1E3D"}>>,
      <<"m", {"U+1E3F", "U+1E41", "U+1E43"}>>,
      <<"n", {"ñ", "U+0144", "U+0146", "U+0148", "U+01F9", "U+1E45", "U+1E47", "U+1E49",
            "U+1E4B"}>>,
      <<"o", {"ò", "ó", "ô", "õ", "ö", "U+014D", "U+014F", "U+0151", "U+01A1", "U+01D2",
            "U+01EB", "U+01ED", "U+020D", "U+020F", "U+022B", "U+022D", "U+022F", "U+0231",
            "U+1E4D", "U+1E4F", "U+1E51", "U+1E53", "U+1ECD", "U+1ECF", "U+1ED1", "U+1ED3",
            "U+1ED5", "U+1ED7", "U+1ED9", "U+1EDB", "U+1EDD", "U+1EDF", "U+1EE1", "U+1EE3"}>>,
      <<"p", {"U+1E55", "U+1E57"}>>,
      <<"r", {"U+0155", "U+0157", "U+0159", "U+0211", "U+0213", "U+1E59", "U+1E5B", "U+1E5D",
            "U+1E5F"}>>,
      <<"s", {"U+015B", "U+015D", "U+015F", "U+0161", "U+0219", "U+1E61", "U+1E63", "U+1E65",
            "U+1E67", "U+1E69"}>>,
      <<"t", {"U+0163", "U+0165", "U+021B", "U+1E6B", "U+1E6D", "U+1E6F", "U+1E71", "U+1E97"}>>,
      <<"u", {"ù", "ú", "û", "ü", "U+0169", "U+016B", "U+016D", "U+016F", "U+0171", "U+0173",
            "U+01B0", "U+01D4", "U+01D6", "U+01D8", "U+01DA", "U+01DC", "U+0215", "U+0217",
            "U+1E73", "U+1E75", "U+1E77", "U+1E79", "U+1E7B", "U+1EE5", "U+1EE7", "U+1EE9",
            "U+1EEB", "U+1EED", "U+1EEF", "U+1EF1"}>>,
      <<"v", {"U+1E7D", "U+1E7F"}>>,
      <<"w", {"U+0175", "U+1E81", "U+1E83", "U+1E85", "U+1E87", "U+1E89", "U+1E98"}>>,
      <<"x", {"U+1E8B", "U+1E8D"}>>,
      <<"y", {"ý", "ÿ", "U+0177", "U+0233", "U+1E8F", "U+1E99", "U+1EF3", "U+1EF5", "U+1EF7",
            "U+1EF9"}>>,
      <<"z", {"U+017A", "U+017C", "U+017E", "U+1E91", "U+1E93", "U+1E95"}>>>>

CombiningMarks == {CharOf(n) : n \in 768..879}

StripAccentsChar(c) ==
    IF c \in CombiningMarks THEN <<>>
    ELSE IF \E k \in 1..Len(AccentedLetters) : c \in AccentedLetters[k][2]
         THEN <<AccentedLetters[CHOOSE k \in 1..Len(AccentedLetters) :
                                    c \in AccentedLetters[k][2]][1]>>
         ELSE <<c>>

RECURSIVE StripAccents(_)
StripAccents(s) ==
    IF s = <<>> THEN <<>> ELSE StripAccentsChar(Head(s)) \o StripAccents(Tail(s))

\* The name, lowercased and then transliterated by unidecode, holds the
\* marker.
Holds(name, marker) == Contains(Unidecode(Lower(name)), marker)

\* The name, accent-stripped and lowercased, holds the marker.
HoldsStripped(name, marker) == Contains(Lower(StripAccents(name)), marker)

\* The candidates are scored by the first rule that matches, under the
\* matching H, and ordered by score descending, candidates of equal score in
\* their order of enumeration; the example is ordered as stated.
PriorityOrderBy(H(_, _)) ==
    opc = "sorted" =>
        LET fw == files_with_priority
        IN  /\ Len(fw) = Len(candidates)
            /\ \A i \in 1..Len(candidates) : \E j \in 1..Len(fw) : fw[j].name = candidates[i]
            /\ \A j \in 1..Len(fw) :
                  /\ H(fw[j].name, <<"-", "r", "e", "l", "a", "c", "a", "o", "i", "t", "e", "n", "s">>) => fw[j].score = 100
                  /\ (~H(fw[j].name, <<"-", "r", "e", "l", "a", "c", "a", "o", "i", "t", "e", "n", "s">>) /\ H(fw[j].name, <<"t", "e", "r", "m", "o">>))
                        => fw[j].score = 75
                  /\ (/\ ~H(fw[j].name, <<"-", "r", "e", "l", "a", "c", "a", "o", "i", "t", "e", "n", "s">>)
                      /\ ~H(fw[j].name, <<"t", "e", "r", "m", "o">>)
                      /\ H(fw[j].name, <<"e", "d", "i", "t", "a", "l">>)) => fw[j].score = 50
                  /\ (/\ ~H(fw[j].name, <<"-", "r", "e", "l", "a", "c", "a", "o", "i", "t", "e", "n", "s">>)
                      /\ ~H(fw[j].name, <<"t", "e", "r", "m", "o">>)
                      /\ ~H(fw[j].name, <<"e", "d", "i", "t", "a", "l">>)) => fw[j].score = 0
            /\ \A i, j \in 1..Len(fw) :
                  i < j => \/ fw[i].score > fw[j].score
                           \/ /\ fw[i].score = fw[j].score
                              /\ EnumIndex(fw[i].name) < EnumIndex(fw[j].name)
            /\ candidates = <<<<"e", "d", "i", "t", "a", "l", ".", "p", "d", "f">>, <<"t", "e", "r", "m", "o", "-", "r", "e", "f", "e", "r", "e", "n", "c", "i", "a", ".", "p", "d", "f">>,
                              <<"a", "n", "e", "x", "o", "-", "r", "e", "l", "a", "c", "a", "o", "i", "t", "e", "n", "s", ".", "p", "d", "f">>>>
                  => fw = <<[score |-> 100, name |-> <<"a", "n", "e", "x", "o", "-", "r", "e", "l", "a", "c", "a", "o", "i", "t", "e", "n", "s", ".", "p", "d", "f">>],
                            [score |-> 75, name |-> <<"t", "e", "r", "m", "o", "-", "r", "e", "f", "e", "r", "e", "n", "c", "i", "a", ".", "p", "d", "f">>],
                            [score |-> 50, name |-> <<"e", "d", "i", "t", "a", "l", ".", "p", "d", "f">>]>>

\* C12 as the claim has it, a rule matching when the accent-stripped,
\* lowercased name holds its marker: a file name scores 100 if it holds the
\* item-list marker, else 75 if it holds "termo", else 50 if it holds
\* "edital", else 0; the candidates are ordered by score descending,
\* candidates of equal score in their order of enumeration.  It fails for
\* the name "anexo", U+2013, "relacaoitens.pdf": no accent is stripped, the
\* name does not hold "-relacaoitens", and it scores 100.
C12_AccentStrippedOrder == PriorityOrderBy(HoldsStripped)

\* C12, amended: a rule matches when the name, lowercased and then
\* transliterated to ASCII by unidecode, holds its marker.  A file name
\* scores 100 if it holds the item-list marker, else 75 if it holds "termo",
\* else 50 if it holds "edital", else 0; the candidates are ordered by score
\* descending, candidates of equal score in their order of enumeration;
\* ["edital.pdf", "termo-referencia.pdf", "anexo-relacaoitens.pdf"] is
\* ordered ["anexo-relacaoitens.pdf", "termo-referencia.pdf", "edital.pdf"].
C12_PriorityOrder == PriorityOrderBy(Holds)

\* Three candidates were sorted: the name whose "m" is the mathematical
\* sans-serif m (U+1D5C6) is a term of reference and stays behind the file of
\* equal score enumerated before it; the name whose "e" is the Cyrillic
\* U+0435 is a notice and comes last though it was enumerated first.
C12_Witness ==
    /\ opc = "sorted"
    /\ candidates = <<<<"U+0435", "d", "i", "t", "a", "l", ".", "p", "d", "f">>, <<"T", "e", "r", "m", "o", "-", "E", "d", "i", "t", "a", "l", ".", "d", "o", "c", "x">>, <<"t", "e", "r", "U+1D5C6", "o", ".", "p", "d", "f">>>>
    /\ files_with_priority = <<[score |-> 75, name |-> <<"T", "e", "r", "m", "o", "-", "E", "d", "i", "t", "a", "l", ".", "d", "o", "c", "x">>],
                               [score |-> 75, name |-> <<"t", "e", "r", "U+1D5C6", "o", ".", "p", "d", "f">>],
                               [score |-> 50, name |-> <<"U+0435", "d", "i", "t", "a", "l", ".", "p", "d", "f">>]>>

\* ----------------------------------------------------------------------- C13
\* Two items have the same key: the same item number and the same first 30
\* characters of the description, lowercased.
SameKey(a, b) ==
    /\ a.item = b.item
    /\ \A i \in 1..30 :
          /\ (i <= Len(a.objeto)) = (i <= Len(b.objeto))
          /\ i <= Len(a.objeto) => LowerChar(a.objeto[i]) = LowerChar(b.objeto[i])

\* The place in the input of the occurrence that is kept for the key of it:
\* the first occurrence, unless that has no lot and a later one has: then the
\* first later one that has a lot.
KeptIndex(it) ==
    LET occ   == {i \in 1..Len(all_items) : SameKey(all_items[i], it)}
        first == CHOOSE i \in occ : \A j \in occ : i <= j
        lots  == {i \in occ : all_items[i].lote # None}
    IN  IF all_items[first].lote # None \/ lots = {} THEN first
        ELSE CHOOSE i \in lots : \A j \in lots : i <= j

\* C13: the Deduplicator's output holds exactly one item for each key of the
\* input; the item kept for a key is its first occurrence, unless a later
\* occurrence has a lot and the first has none: then it is the first later
\* occurrence that has a lot.
C13_OneItemPerKey ==
    opc = "deduped" =>
        /\ \A i, j \in 1..Len(final_items) :
              i # j => ~SameKey(final_items[i], final_items[j])
        /\ \A i \in 1..Len(all_items) :
              \E j \in 1..Len(final_items) : SameKey(all_items[i], final_items[j])
        /\ \A j \in 1..Len(final_items) :
              /\ \E i \in 1..Len(all_items) : SameKey(all_items[i], final_items[j])
              /\ final_items[j] = all_items[KeptIndex(final_items[j])]

\* A notebook without lot, then the same key with lot G1, then with lot G3:
\* the one of G1 is kept.
C13_Witness ==
    /\ opc = "deduped"
    /\ all_items = <<DedupItem(None, 1, Notebook), DedupItem(<<"G", "1">>, 1, NotebookUpper),
                     DedupItem(<<"G", "3">>, 1, Notebook)>>
    /\ final_items = <<DedupItem(<<"G", "1">>, 1, NotebookUpper)>>

\* ----------------------------------------------------------------------- C14
\* The place in the input of the first occurrence of the key of it.
FirstIndex(it) ==
    CHOOSE i \in 1..Len(all_items) :
        /\ SameKey(all_items[i], it)
        /\ \A j \in 1..(i - 1) : ~SameKey(all_items[j], it)

\* The output is sorted ascending by item number.
SortedByItem ==
    \A i, j \in 1..Len(final_items) : i < j => final_items[i].item <= final_items[j].item

\* C14 as stated: the output is sorted ascending by item number and two kept
\* items of the same number are in the order in which they themselves stand
\* in the input, also when one of them is a later occurrence that replaced a
\* lot-less one.
C14_TiesInInputOrder ==
    opc = "deduped" =>
        /\ SortedByItem
        /\ \A i, j \in 1..Len(final_items) :
              (i < j /\ final_items[i].item = final_items[j].item)
                 => KeptIndex(final_items[i]) < KeptIndex(final_items[j])

\* C14, amended: the output is sorted ascending by item number and two kept
\* items of the same number are in the order in which their keys first occur
\* in the input; an occurrence that replaced an earlier lot-less item stands
\* where the replaced item stood, not where it stands itself in the input.
C14_TiesInKeyOrder ==
    opc = "deduped" =>
        /\ SortedByItem
        /\ \A i, j \in 1..Len(final_items) :
              (i < j /\ final_items[i].item = final_items[j].item)
                 => FirstIndex(final_items[i]) < FirstIndex(final_items[j])

\* A lot-less notebook, a monitor of the same number, then the notebook with
\* a lot: the notebook with the lot comes out before the monitor.
C14_Witness ==
    /\ opc = "deduped"
    /\ all_items = <<DedupItem(None, 1, Notebook), DedupItem(<<"G", "2">>, 1, <<"M", "o", "n", "i", "t", "o", "r">>),
                     DedupItem(<<"G", "3">>, 1, Notebook)>>
    /\ final_items = <<DedupItem(<<"G", "3">>, 1, Notebook), DedupItem(<<"G", "2">>, 1, <<"M", "o", "n", "i", "t", "o", "r">>)>>

\* ----------------------------------------------------------------------- C15
\* C15: the Deduplicator is idempotent: applied to its own output it returns
\* the same items in the same order.
C15_DedupIdempotent ==
    [][(opc = "deduped" /\ opc' = "twice") => final_items' = final_items]_vars

\* The Deduplicator ran twice on an input with a repeated key and two items
\* of one number: both results are the two kept items.
C15_Witness ==
    /\ opc = "twice"
    /\ Len(all_items) = 3
    /\ Len(final_items) = 2
    /\ final_items[1].item = final_items[2].item
    /\ final_items[1].lote = None

\* ----------------------------------------------------------------------- C16
\* C16: an attachment whose reading or parsing faults at any point (during
\* the table pass, between tables, during the text fallback) contributes no
\* item: what extract() returns for it is empty.
C16_FaultGivesNoItems ==
    (pc = "done" /\ fault) => extracted_items = <<>>

\* ----------------------------------------------------------------------- C17
\* The documents whose processing is over.
Completed ==
    IF opc \in {"files", "collected"} THEN SubSeq(handled, 1, Len(handled) - 1)
    ELSE handled

\* C17: a fault inside one document does not end process_directory: the run
\* ends only after every JSON file of the directory was taken, in the order
\* of enumeration, and the result holds exactly one record for each document
\* that did not fault and none for one that did, in that order.
C17_FaultyDocumentOmitted ==
    LET good == SelectSeq(Completed, LAMBDA d : ~d.faulted)
    IN  /\ Len(results) = Len(good)
        /\ \A k \in 1..Len(good) : results[k].arquivo_json = good[k].name
        /\ Len(handled) <= Len(json_files)
        /\ \A i \in 1..Len(handled) : handled[i].name = json_files[i]
        /\ opc = "end" => Len(handled) = Len(json_files)

\* The run over two documents is over: the first could not be read and has
\* no record, the second has one.
C17_Witness ==
    /\ opc = "end"
    /\ Len(json_files) = 2
    /\ ~handled[1].readable /\ handled[1].faulted
    /\ ~handled[2].faulted
    /\ Len(results) = 1
    /\ results[1].arquivo_json = <<"b", ".", "j", "s", "o", "n">>

\* ----------------------------------------------------------------------- C18
\* The metadata fields of a record.
MetaFields == {"numero_pregao", "orgao", "cidade", "estado"}

\* C18: the metadata fields are passed through unvalidated: every document
\* whose metadata could be read has a record, whatever the values, and the
\* record carries them, with the empty string for an absent field.
C18_MetadataPassThrough ==
    \A i \in 1..Len(Completed) :
        (/\ Completed[i].readable
         /\ Completed[i].meta # NullData
         /\ \A f \in MetaFields : Completed[i].meta[f] # None) =>
            \E k \in 1..Len(results) :
                /\ results[k].arquivo_json = Completed[i].name
                /\ \A f \in MetaFields :
                      results[k][f] = (IF Completed[i].meta[f] = Absent THEN <<>>
                                       ELSE Completed[i].meta[f])

\* ----------------------------------------------------------------------- C19
\* C19: the Numeric Normalizer returns invalid for an argument without a
\* digit, for an argument whose value is zero and for a negative argument (a
\* minus sign followed by digits); normalize("1.234,56") = 1234.56,
\* normalize("0"), normalize("abc") and normalize("-5") are invalid.
C19_NonPositiveInvalid ==
    opc = "normalized" =>
        /\ (\A i \in 1..Len(num_in) : num_in[i] \notin Digits) => ~num_out.ok
        /\ (num_in # <<>> /\ \A i \in 1..Len(num_in) : num_in[i] = "0") => ~num_out.ok
        /\ (/\ Len(num_in) >= 2
            /\ num_in[1] = "-"
            /\ \A i \in 2..Len(num_in) : num_in[i] \in Digits) => ~num_out.ok
        /\ num_out.ok => num_out.inf \/ num_out.ip # <<>> \/ num_out.fp # <<>>
        /\ num_in = <<"1", ".", "2", "3", "4", ",", "5", "6">> =>
               num_out = [ok |-> TRUE, inf |-> FALSE, ip |-> <<1, 2, 3, 4>>, fp |-> <<5, 6>>]
        /\ num_in = <<"0">> => ~num_out.ok
        /\ num_in = <<"a", "b", "c">> => ~num_out.ok
        /\ num_in = <<"-", "5">> => ~num_out.ok

\* ----------------------------------------------------------------------- C20
\* The normalized text of cell i of the row: transliterated by unidecode,
\* lowercased, trimmed; None is the empty text.
CellText(i) == IF row[i] = None THEN <<>> ELSE Strip(Lower(Unidecode(row[i])))

\* The text of cell i of the row with the accents stripped, lowercased,
\* trimmed; None is the empty text.
StrippedText(i) == IF row[i] = None THEN <<>> ELSE Strip(Lower(StripAccents(row[i])))

\* The lowest column whose text T contains one of the synonyms, 0 when there
\* is none.
LowestColumn(T(_), synonyms) ==
    LET cols == {i \in 1..Len(row) :
                    \E k \in 1..Len(synonyms) : Contains(T(i), synonyms[k])}
    IN  IF cols = {} THEN 0 ELSE CHOOSE i \in cols : \A j \in cols : i <= j

\* A mapping is returned if and only if objeto and quantidade are both
\* bound; in a returned mapping every field is bound to the lowest column
\* whose text T contains one of its synonyms (0 here for a field without such
\* a column), each field on its own; the example binds its five columns.
HeaderMappingBy(T(_)) ==
    pc = "identified" =>
        /\ header_map.ok <=> (/\ LowestColumn(T, SynObjeto) # 0
                              /\ LowestColumn(T, SynQuantidade) # 0)
        /\ header_map.ok =>
              /\ header_map.item = LowestColumn(T, SynItem)
              /\ header_map.quantidade = LowestColumn(T, SynQuantidade)
              /\ header_map.objeto = LowestColumn(T, SynObjeto)
              /\ header_map.unidade_fornecimento = LowestColumn(T, SynUnidade)
              /\ header_map.lote = LowestColumn(T, SynLote)
        /\ ~header_map.ok => header_map = NoMapping
        /\ row = <<<<"I", "T", "E", "M">>, <<"Q", "T", "D", "E">>, <<"D", "E", "S", "C", "R", "I", "Ç", "Ã", "O">>, <<"U", "N", "I", "D">>, <<"L", "O", "T", "E">>>>
              => header_map = [ok |-> TRUE, item |-> 1, quantidade |-> 2, objeto |-> 3,
                               unidade_fornecimento |-> 4, lote |-> 5]

\* C20 as the claim has it, the normalized text being the cell
\* accent-stripped, lowercased and trimmed: a mapping is returned if and only
\* if objeto and quantidade are both bound, and every field is bound to the
\* lowest column whose normalized text contains one of its synonyms.  It
\* fails for the row Objeto, Qtd, "Emb" with the mathematical sans-serif m
\* (U+1D5C6): no accent is stripped, no cell holds a synonym of the unit, and
\* the unit is bound to the third column.
C20_AccentStrippedMapping == HeaderMappingBy(StrippedText)

\* C20, amended: the normalized text of a cell is the cell transliterated to
\* ASCII by unidecode, lowercased and trimmed.  The Header Identifier
\* returns a mapping if and only if objeto and quantidade are both bound; in
\* a returned mapping every field is bound to the lowest column whose
\* normalized text contains one of its synonyms (0 here for a field without
\* such a column), each field on its own; the row ITEM, QTDE, DESCRIÇÃO,
\* UNID, LOTE binds the five fields to its five columns in order (1..5 here,
\* 0..4 in the code).
C20_HeaderMapping == HeaderMappingBy(CellText)

\* A row whose first cell holds a synonym of objeto only once its ligature
\* U+FB01 is "fi", whose second cell holds synonyms of two fields and whose
\* third holds one of them again: item and quantidade are both bound to the
\* second column.
C20_Witness ==
    /\ pc = "identified"
    /\ row = <<<<"E", "s", "p", "e", "c", "i", "U+FB01", "c", "a", "ç", "ã", "o">>, <<"Q", "u", "a", "n", "t", "i", "d", "a", "d", "e", " ", "d", "o", " ", "i", "t", "e", "m">>, <<"I", "T", "E", "M">>>>
    /\ header_map.ok
    /\ header_map.objeto = 1
    /\ header_map.item = 2
    /\ header_map.quantidade = 2
    /\ header_map.lote = 0


\* ----------------------------------------------------------------------- C21
\* A step of ReadTable: one more table was taken.
TableStep == pc = "tables" /\ ntables' = ntables + 1

\* The table taken by the step has a first row that is no header.
FirstRowRefused == head' # None /\ ~IdentifyColumns(head').ok

\* C21: a table whose first row is not accepted by the Header Identifier is
\* skipped entirely: the step that takes it leaves last_lot, item_counter and
\* the item lists as they were and gives no row to the Row Parser, and every
\* row that is parsed is parsed under the mapping identified from the first
\* row of its own table, never under the mapping of an earlier table.
C21_RefusedTableSkipped ==
    [][/\ (TableStep /\ FirstRowRefused) =>
              /\ pc' = "tables"
              /\ header_map' = NoMapping
              /\ state' = state
              /\ items' = items
              /\ extracted_items' = extracted_items
              /\ nrows' = nrows
              /\ row' = row
       /\ RowStep =>
              /\ head # None
              /\ header_map.ok
              /\ header_map = IdentifyColumns(head)]_vars

\* A first table gave item 1 of lot G1; the second table, whose first row is
\* Nome | Valor, has just been taken and skipped.
C21_Witness ==
    /\ pc = "tables"
    /\ ntables = 2
    /\ head = <<<<"N", "o", "m", "e">>, <<"V", "a", "l", "o", "r">>>>
    /\ header_map = NoMapping
    /\ state = [last_lote |-> <<"G", "1">>, item_counter |-> 2]
    /\ Len(items) + Len(extracted_items) = 1

\* ----------------------------------------------------------------------- C22
\* C22: during one document's extraction pass item_counter is always >= 1,
\* and no call of the Row Parser leaves item_counter smaller than it was
\* before the call.
C22_CounterNeverDecreases ==
    [][/\ state.item_counter >= 1
       /\ state'.item_counter >= 1
       /\ RowStep => state'.item_counter >= state.item_counter]_vars

\* ----------------------------------------------------------------------- C23
\* The items emitted so far in the pass (DOCX moves the items of a finished
\* table to extracted_items).
EmittedInPass == extracted_items \o items

\* C23: within one document's extraction pass, a number taken from
\* item_counter never equals the number of an item emitted earlier in the
\* pass, and an explicit number never equals a number that was taken from
\* the counter earlier in the pass.
C23_NoRecollision ==
    [][RowAccepted =>
         LET n == CleanNumber(GetVal(row', header_map.item))
         IN  IF n.ok
             THEN Last(items').item \notin counted
             ELSE \A i \in 1..Len(EmittedInPass) :
                      EmittedInPass[i].item # Last(items').item]_vars

\* ----------------------------------------------------------------------- C24
\* The description and the normalized quantity and item cell of the row.
RowDesc == GetVal(row, header_map.objeto)

RowQtd == CleanNumber(GetVal(row, header_map.quantidade))

RowItemCell == CleanNumber(GetVal(row, header_map.item))

\* C24 as stated: a row whose description is exactly 2 characters long is
\* rejected for every quantity, and a row whose description is exactly 3
\* characters long is accepted whenever its quantity text is valid
\* according to the Numeric Normalizer.
C24_BoundaryAsStated ==
    pc = "parsed" =>
        /\ Len(RowDesc) = 2 => items = <<>>
        /\ (Len(RowDesc) = 3 /\ RowQtd.ok) => items # <<>>

\* C24, amended: a row whose description is exactly 2 characters long is
\* rejected for every quantity; a row whose description is exactly 3
\* characters long is accepted exactly when its quantity normalizes to a
\* finite number of at least 1 and its item cell does not normalize to
\* infinity or to a positive number below 1, and the item then holds the
\* description and the integer part of the quantity.
C24_BoundaryOfDescription ==
    pc = "parsed" =>
        /\ Len(RowDesc) = 2 => items = <<>>
        /\ Len(RowDesc) = 3 =>
              /\ items # <<>> <=>
                    /\ RowQtd.ok
                    /\ ~RowQtd.inf /\ IntOf(RowQtd) >= 1
                    /\ RowItemCell.ok => ~RowItemCell.inf /\ IntOf(RowItemCell) >= 1
              /\ items # <<>> =>
                    /\ items[1].objeto = RowDesc
                    /\ items[1].quantidade = IntOf(RowQtd)

\* The row abc | 7 under the mapping of Objeto | Quantidade was accepted.
C24_Witness ==
    /\ pc = "parsed"
    /\ row = <<<<"a", "b", "c">>, <<"7">>>>
    /\ header_map.objeto = 1
    /\ Len(items) = 1
    /\ items[1].objeto = <<"a", "b", "c">>
    /\ items[1].quantidade = 7

\* ----------------------------------------------------------------------- C25
\* C25: the Row Parser is total: for any row (of any length, shorter than
\* the mapped columns or not, with absent or empty cells), any header
\* mapping and any ExtractionState it returns a valid item or no item, and
\* no exception reaches its caller.
C25_RowParserTotal ==
    pc = "parsed" =>
        /\ ~fault
        /\ \/ items = <<>>
           \/ Len(items) = 1 /\ ItemSatisfiesSchema(items[1])

\* A row shorter than the mapped columns whose construction failed inside
\* the parser (description ab, item cell 7): no item, and the counter shows
\* that the body had reached the construction.
C25_Witness ==
    /\ pc = "parsed"
    /\ row = <<<<"7">>, <<"7">>, <<"a", "b">>>>
    /\ header_map.lote = 5
    /\ items = <<>>
    /\ state.item_counter = 8
    /\ ~fault

\* ----------------------------------------------------------------------- C29
\* A step of ParseRowStep whose row was rejected (no item was emitted).
RowRejected == RowStep /\ items' = items

\* C29: whenever the Row Parser returns no item for a row (blank description
\* or quantity, invalid quantity, or a failed construction), last_lot and
\* item_counter are the same after the call as before it.
C29_RejectedRowKeepsState ==
    [][RowRejected => state' = state]_vars

\* ----------------------------------------------------------------------- C26
\* A description line, a lot-header line or an end-of-item line (one that
\* contains the delivery-location marker).
FlushPointLine(ln) ==
    /\ ln # <<>>
    /\ \/ IsLotHeader(ln)
       \/ Contains(Lower(ln), <<"d", "e", "s", "c", "r", "i", "ç", "ã", "o">>)
       \/ Contains(Lower(ln), <<"o", "b", "j", "e", "t", "o", ":">>)
       \/ Contains(Lower(ln), <<"l", "o", "c", "a", "l", " ", "d", "e", " ", "e", "n", "t", "r", "e", "g", "a">>)

\* The step flushed the complete buffer it found: the buffer it leaves is a
\* new one, and the list grew by the one item of the buffer, or did not grow
\* when validation dropped the buffer.
FlushedOnce ==
    /\ ~Complete(current_item')
    /\ IF BufferGivesItem(current_item)
       THEN /\ Len(text_items') = Len(text_items) + 1
            /\ SubSeq(text_items', 1, Len(text_items)) = text_items
            /\ Last(text_items').quantidade = current_item.quantidade
            /\ Last(text_items').objeto =
                   Strip(RemoveSub(current_item.objeto, <<"D", "e", "t", "a", "l", "h", "a", "d", "a", ":">>))
       ELSE text_items' = text_items

\* C26: in the text-fallback scan every buffer that becomes complete is
\* flushed exactly once: it is emitted as one item or dropped by validation
\* at the next description line, lot-header line or end-of-item line or, at
\* the latest, at the final flush after the last line, so that no complete
\* buffer is left when the scan is over; a trailing complete item is emitted
\* by the final flush, and no other step emits an item.
C26_CompleteBufferFlushedOnce ==
    [][/\ (ScanStepTaken /\ Complete(current_item) /\ FlushPointLine(Strip(line)))
             => FlushedOnce
       /\ (FinalFlushTaken /\ Complete(current_item))
             => FlushedOnce
       /\ FinalFlushTaken => ~Complete(current_item')
       /\ (pc = "scan" /\ ~Complete(current_item))
             => text_items' = text_items
       /\ (ScanStepTaken /\ ~FlushPointLine(Strip(line)))
             => text_items' = text_items]_vars

\* ----------------------------------------------------------------------- C27
\* The attempts that yielded at least one item without faulting.
Yielding == SelectSeq(attempted, LAMBDA a : a.items # <<>> /\ ~a.faulted)

\* The items of a sequence of attempts, in order.
RECURSIVE ItemsOf(_)
ItemsOf(as) == IF as = <<>> THEN <<>> ELSE Head(as).items \o ItemsOf(Tail(as))

\* C27: the list of processed attachment names holds exactly the names of the
\* attempted attachments that yielded at least one item, in the order they
\* were attempted; an attachment that yielded no item, faulted or was never
\* attempted is not listed, and every item of the pre-deduplication list
\* came from a listed attachment.
C27_ProcessedAttachments ==
    opc \in {"files", "collected"} =>
        /\ processed_files = [i \in 1..Len(Yielding) |-> Yielding[i].name]
        /\ all_items = ItemsOf(Yielding)

\* ----------------------------------------------------------------------- C28
\* How many of the first k documents of the run have a record.
RECURSIVE RecordsUpTo(_)
RecordsUpTo(k) ==
    IF k = 0 THEN 0 ELSE RecordsUpTo(k - 1) + (IF handled[k].faulted THEN 0 ELSE 1)

\* The record of document k of the run, but for the name of its JSON file.
RecordOf(k) == [results[RecordsUpTo(k)] EXCEPT !.arquivo_json = <<>>]

\* Documents i and j of the run fared the same: neither has a record, or
\* both have and the records are equal but for the name of the JSON file.
SameOutcome(i, j) ==
    /\ handled[i].faulted = handled[j].faulted
    /\ ~handled[i].faulted => RecordOf(i) = RecordOf(j)

\* C28: no mutable state crosses documents: when the run is over, two
\* places of the run that held the same document have the same record (the
\* same items with the same numbers and lots, and the same list of processed
\* attachments), or no record both, whatever was processed before each; and
\* last_lote and item_counter do not carry over: before the first row of an
\* attachment is parsed the ExtractionState is (absent, 1).
C28_NothingCarriesOver ==
    /\ opc = "end" =>
           \A i, j \in 1..Len(disk) : disk[i] = disk[j] => SameOutcome(i, j)
    /\ (opc = "extract" /\ pc \in {"tables", "rows"} /\ nrows = 0) => state = FreshState

\* A run of three documents is over.  The second left item_counter at 3 and
\* the lot G1 in the table pass and the lot 1 in the text pass; the third,
\* whose row and text have no number and no lot, has the record it had as
\* the first: item 1 without a lot from the table and from the text.
C28_Witness ==
    /\ opc = "end"
    /\ Len(disk) = 3
    /\ disk[1] = disk[3]
    /\ Len(results) = 3
    /\ \E k \in 1..Len(results[2].itens_extraidos) :
          /\ results[2].itens_extraidos[k].item = 2
          /\ results[2].itens_extraidos[k].lote = <<"G", "1">>
    /\ \E k \in 1..Len(results[2].itens_extraidos) :
          results[2].itens_extraidos[k].lote = <<"1">>
    /\ results[3].anexos_processados = <<<<"A", "n", "e", "x", "o", "-", "R", "e", "l", "a", "c", "a", "o", "I", "t", "e", "n", "s", ".", "p", "d", "f">>>>
    /\ Len(results[3].itens_extraidos) = 2
    /\ \A k \in 1..2 : /\ results[3].itens_extraidos[k].item = 1
                        /\ results[3].itens_extraidos[k].lote = None
    /\ results[1].itens_extraidos = results[3].itens_extraidos

\* ----------------------------------------------------------------------- C30
\* The branch of the scan that a stripped non-empty line takes.
KindOfLine(ln) ==
    IF IsLotHeader(ln) THEN "lot"
    ELSE IF Contains(Lower(ln), <<"d", "e", "s", "c", "r", "i", "ç", "ã", "o">>) \/ Contains(Lower(ln), <<"o", "b", "j", "e", "t", "o", ":">>)
    THEN "description"
    ELSE IF Contains(Lower(ln), <<"q", "u", "a", "n", "t", "i", "d", "a", "d", "e">>) /\ Contains(ln, <<":">>)
    THEN IF Contains(Lower(ln), <<"l", "o", "c", "a", "l", " ", "d", "e", " ", "e", "n", "t", "r", "e", "g", "a">>) THEN "ignored" ELSE "quantity"
    ELSE IF Contains(Lower(ln), <<"u", "n", "i", "d", "a", "d", "e">>) /\ Contains(ln, <<":">>) THEN "unit"
    ELSE IF Contains(Lower(ln), <<"l", "o", "c", "a", "l", " ", "d", "e", " ", "e", "n", "t", "r", "e", "g", "a">>) THEN "end"
    ELSE "other"

\* The line has no value of its own after the first colon.
NothingAfterColon(ln) ==
    SplitRest(ln, ":") = None \/ Strip(SplitRest(ln, ":")) = <<>>

\* The value of the current line: its own, or the stripped line below it.
ValueOfLine ==
    IF ~NothingAfterColon(Strip(line)) THEN Strip(SplitRest(Strip(line), ":"))
    ELSE IF next_line = EOF THEN <<>>
    ELSE Strip(next_line)

\* The buffer the step works on: a description line first flushes a complete
\* buffer.
BufferAtLabel ==
    IF KindOfLine(Strip(line)) = "description" /\ Complete(current_item)
    THEN EmptyBuffer ELSE current_item

\* C30: in the text-fallback scan a description, quantity or unit label with
\* nothing after its colon takes its value from the line immediately below
\* it, whatever that line is (a blank line gives no value); the lookahead
\* does not consume that line: it is the current line of the next step and
\* is classified there on its own, as a lot-header, a label or any other
\* line.
C30_LookaheadDoesNotConsume ==
    [][ScanStepTaken =>
          /\ line' = next_line
          /\ (Strip(line) # <<>> /\ KindOfLine(Strip(line)) = "description")
                => current_item' =
                       IF ValueOfLine # <<>>
                       THEN [BufferAtLabel EXCEPT !.objeto = ValueOfLine]
                       ELSE BufferAtLabel
          /\ (Strip(line) # <<>> /\ KindOfLine(Strip(line)) = "quantity")
                => current_item' =
                       IF CleanNumber(ValueOfLine).ok
                       THEN [current_item EXCEPT !.quantidade = IntOf(CleanNumber(ValueOfLine))]
                       ELSE current_item
          /\ (Strip(line) # <<>> /\ KindOfLine(Strip(line)) = "unit")
                => current_item' =
                       IF ValueOfLine # <<>>
                       THEN [current_item EXCEPT !.unidade_fornecimento = ValueOfLine]
                       ELSE current_item
          /\ (Strip(line) # <<>> /\ KindOfLine(Strip(line)) = "lot")
                => current_lote' = LotOfHeader(Strip(line))
          /\ (Strip(line) = <<>> \/ KindOfLine(Strip(line)) \in {"ignored", "other"})
                => /\ current_item' = current_item
                   /\ text_items' = text_items
                   /\ current_lote' = current_lote]_vars

\* A description label took the line below it, a quantity label with its
\* value, as the description, and that line then set the quantity as the
\* current line of the next step.
C30_Witness ==
    /\ pc = "scan"
    /\ line = <<>>
    /\ next_line = EOF
    /\ text_items = <<>>
    /\ current_item = [objeto |-> <<"Q", "u", "a", "n", "t", "i", "d", "a", "d", "e", ":", " ", "7">>, quantidade |-> 7,
                       unidade_fornecimento |-> None]
====
